---- MODULE Spec2Model ----
(***************************************************************************)
(* Model of the consensus node of mini-pow-blockchain                      *)
(* (src/apps/blockchain/server.js): chain, UTXO map, mempool, compact      *)
(* target arithmetic, block and transaction validation, block              *)
(* application, retargeting, and the HTTP / P2P entry points.              *)
(*                                                                         *)
(* SHA-256 is modelled as an ideal hash: a digest is the preimage itself,   *)
(* tagged with what was hashed, so two digests are equal exactly when the  *)
(* preimages are.  The                                                     *)
(* numeric reading of a header hash (BigInt('0x' + hash)) is HashNum, a    *)
(* fixed arithmetic mix of the header fields reduced to HashSpace.         *)
(* An ECDSA signature is the pair (signing key, signed message).           *)
(***************************************************************************)
EXTENDS Integers, Sequences, FiniteSets, TLC

VARIABLES chain, mempool, utxo, seenTx, seenBlockHash, mempoolSpent, config, resp, fsFaults,
          calc, disk, peersSet, timers, mesh

vars == <<chain, mempool, utxo, seenTx, seenBlockHash, mempoolSpent, config, resp, fsFaults,
          calc, disk, peersSet, timers, mesh>>

\* The node's state proper, in memory and on disk (fsFaults counts the environment's
\* disk faults; resp is the answer of the last turn).
nodeState == <<chain, mempool, utxo, seenTx, seenBlockHash, mempoolSpent, config, disk>>

\* The peer sockets and reconnect timers of the gossip layer, and what lies outside
\* the node.
netState == <<peersSet, timers>>
outside == <<calc, mesh>>

(* ------------------------------ bounds --------------------------------- *)
\* Chain lengths up to which every submitted block is explored.
MaxHeight == 2
\* Chain length up to which blocks are explored on top of the reference chain.
DeepHeight == 3
\* Transactions the mempool holds before admission stops.
MaxMempool == 2
\* config.json values chosen so that a retarget and a halving happen within
\* MaxHeight (server.js:40 overlays config.json on the defaults of 29..35).
AdjustEvery == 2
HalvingInterval == 2
\* Disk write failures (fs.writeFileSync throwing) the environment injects.
MaxFsFaults == 1
\* Nonces a miner tries: 0..MaxNonce.
MaxNonce == 3
\* Targets fed to the compact-bits functions: m * 2^e, m in 1..MaxMant, e a multiple
\* of 4 up to MaxExp (one to four bytes long).
MaxMant == 255
MaxExp == 20
\* The largest target a repeated retarget starts from (four times it fits an integer).
MaxRetargetTarget == 500000000
\* Peers that dial in at the same time, and reconnect timers pending at once.
MaxInbound == 2
MaxTimers == 3
\* Blocks the miners of a two-node mesh solve, and messages in flight between the
\* nodes beyond which no tip is asked for.
MaxMined == 2
MaxWire == 2
\* The number of header digests; it stands for 2^256.
HashSpace == 134217728

(* --------------------------- program constants ------------------------- *)
TargetBlockTimeSec == 10
BlockSubsidy == 5
CoinbaseMaturity == 2
MaxBlockTx == 25
\* 2 * 60 * 60 * 1000
MAX_FUTURE == 7200000
\* minR = 0.25, as hundredths
minRNum == 25
maxR == 4
\* The stride of the nonce in the numeric reading of a header digest.
NonceStride == HashSpace \div 4

(* ------------------------------ helpers -------------------------------- *)
Pow2(n) == 2 ^ n

Range(s) == {s[i] : i \in DOMAIN s}

RECURSIVE SumSeq(_)
SumSeq(s) == IF s = <<>> THEN 0 ELSE s[1] + SumSeq(Tail(s))

\* Map (JS Map / Set of 'txid:index' keys): a function on the set of its keys.
EmptyMap == [k \in {} |-> 0]
MapHas(m, k) == k \in DOMAIN m
MapSet(m, k, v) == [x \in (DOMAIN m) \cup {k} |-> IF x = k THEN v ELSE m[x]]
MapDelete(m, k) == [x \in (DOMAIN m) \ {k} |-> m[x]]

\* `${i.txid}:${i.index}`
OutpointKey(txid, index) == <<txid, index>>

(* ------------------------------- ids ----------------------------------- *)
\* A missing / falsy id field (!tx.id).
NoId == <<"none">>
GenesisId == <<"genesis">>
\* An id supplied as a string of decimal digits ('7'), and one supplied as a JSON
\* number (8).
DigitsId == <<"digits", 7>>
NumberId == <<"number", 8>>
IsString(id) == id[1] # "number"
\* The property key an id is stored under in the mempool object, and whether that key
\* is an array index (a canonical decimal numeral), which Object.values lists before
\* all other keys, in ascending order.
KeyOf(id) == IF id[1] = "number" THEN <<"digits", id[2]>> ELSE id
IsArrayIndex(id) == KeyOf(id)[1] = "digits"

\* An output object of the JSON body that has an amount field.
HasAmount(o) == "amount" \in DOMAIN o

\* JSON.stringify leaves out a field whose value is undefined.
txIdFor(tx) ==
  <<"txid",
    [k \in DOMAIN tx.inputs |-> <<tx.inputs[k].txid, tx.inputs[k].index, tx.inputs[k].pubKey>>],
    [k \in DOMAIN tx.outputs |->
       IF HasAmount(tx.outputs[k]) THEN <<tx.outputs[k].address, tx.outputs[k].amount>>
       ELSE <<tx.outputs[k].address>>]>>

\* if (!t.id) t.id = txIdFor(t)
WithId(tx) == IF tx.id = NoId THEN [tx EXCEPT !.id = txIdFor(tx)] ELSE tx

headerHash(block) ==
  <<"header", block.index, block.previousHash, block.timestamp, block.merkleRoot,
    block.nonce, block.bits>>

\* Buffer.from(t, 'hex'): 'genesis' and '7' hold no hex digit pair and decode to the
\* empty buffer; a 64-digit hex id decodes to itself.
HexBytes(id) == IF id = GenesisId \/ id = DigitsId THEN <<"empty">> ELSE id

RECURSIVE MerklePairs(_)
MerklePairs(nodes) ==
  IF nodes = <<>> THEN <<>>
  ELSE <<(<<"merkle", nodes[1], nodes[2]>>)>> \o MerklePairs(SubSeq(nodes, 3, Len(nodes)))

RECURSIVE MerkleLoop(_)
MerkleLoop(nodes) ==
  IF Len(nodes) <= 1 THEN nodes[1]
  ELSE LET padded == IF Len(nodes) % 2 = 1 THEN Append(nodes, nodes[Len(nodes)]) ELSE nodes
       IN  MerkleLoop(MerklePairs(padded))

merkleRoot(txids) ==
  IF Len(txids) = 0 THEN <<"sha256-of-empty">>
  ELSE MerkleLoop([k \in DOMAIN txids |-> HexBytes(txids[k])])

(* ---------------------- compact target bits ---------------------------- *)
bitsToTarget(bits) ==
  LET size == (bits \div Pow2(24)) % 256
      mant == bits % Pow2(23)
  IN  IF size <= 3 THEN mant \div Pow2(8 * (3 - size))
      ELSE mant * Pow2(8 * (size - 3))

\* Math.ceil(hex.length / 2) after padding hex to an even length.
RECURSIVE ByteLen(_)
ByteLen(n) == IF n < 256 THEN 1 ELSE 1 + ByteLen(n \div 256)

targetToBits(target) ==
  IF target <= 0 THEN 0
  ELSE LET size0 == ByteLen(target)
           top3 == target \div Pow2(8 * (size0 - 3))
           signed == size0 > 3 /\ (top3 \div Pow2(16)) % 256 >= 128
           mantBytes == IF size0 <= 3 THEN target
                        ELSE IF signed THEN top3 \div 256
                        ELSE top3
           size == IF signed THEN size0 + 1 ELSE size0
       IN  size * Pow2(24) + (mantBytes % Pow2(23))

hashMeetsBits(hashNum, bits) == hashNum <= bitsToTarget(bits)

(* -------------------------- consensus rules ---------------------------- *)
getBlockReward(height) ==
  LET halvings == height \div config.halvingInterval
      r == config.blockSubsidy \div Pow2(halvings)
  IN  IF r > 0 THEN r ELSE 0

\* address = RIPEMD160(SHA256(pubKey)): one address per key.
pubKeyToAddress(pubKeyHex) ==
  CASE pubKeyHex = "k1" -> "a1"
    [] pubKeyHex = "k2" -> "a2"
    [] OTHER -> "a0"

\* Sighash (ALL): inputs (txid, index) and outputs (address, amount).
SigHash(tx) ==
  <<"sighash",
    [k \in DOMAIN tx.inputs |-> <<tx.inputs[k].txid, tx.inputs[k].index>>],
    [k \in DOMAIN tx.outputs |-> <<tx.outputs[k].address, tx.outputs[k].amount>>]>>

NoSig == [by |-> "", msg |-> <<"none">>]

verifyInputSig(tx, inputIndex) ==
  LET inp == tx.inputs[inputIndex]
  IN  IF inp.pubKey = "" \/ inp.sig = NoSig THEN "missing pubKey or sig"
      ELSE IF ~(inp.sig.by = inp.pubKey /\ inp.sig.msg = SigHash(tx)) THEN "bad signature"
      ELSE "ok"

\* A validateTx that takes every coinbase output as mature.
TxMatureAny(entry, currentHeight) == TRUE

\* !(entry.isCoinbase && (currentHeight - entry.blockHeight) < config.coinbaseMaturity)
TxMature(entry, currentHeight) ==
  ~(entry.isCoinbase /\ (currentHeight - entry.blockHeight) < config.coinbaseMaturity)

\* A validateBlock that takes every coinbase output as mature.
BlockMatureAny(ent, blockIndex) == TRUE

\* !(ent.isCoinbase && (block.index - ent.blockHeight) < config.coinbaseMaturity)
BlockMature(ent, blockIndex) ==
  ~(ent.isCoinbase /\ (blockIndex - ent.blockHeight) < config.coinbaseMaturity)

\* The input loop of validateTx; the result is the first error thrown, or "ok"
\* with the input sum.
RECURSIVE validateTxInputs(_, _, _, _, _)
validateTxInputs(tx, idx, used, inSum, currentHeight) ==
  IF idx > Len(tx.inputs) THEN [err |-> "ok", inSum |-> inSum]
  ELSE LET i == tx.inputs[idx]
           key == OutpointKey(i.txid, i.index)
       IN  IF key \in used THEN [err |-> "double spend in tx", inSum |-> inSum]
           ELSE IF ~MapHas(utxo, key) THEN [err |-> "missing UTXO", inSum |-> inSum]
           ELSE IF ~TxMature(utxo[key], currentHeight)
                THEN [err |-> "coinbase not mature", inSum |-> inSum]
           ELSE IF verifyInputSig(tx, idx) # "ok"
                THEN [err |-> verifyInputSig(tx, idx), inSum |-> inSum]
           ELSE IF pubKeyToAddress(i.pubKey) # utxo[key].address
                THEN [err |-> "pubKey does not match UTXO address", inSum |-> inSum]
           ELSE validateTxInputs(tx, idx + 1, used \cup {key},
                                 inSum + utxo[key].amount, currentHeight)

OutputAmounts(tx) == [k \in DOMAIN tx.outputs |-> tx.outputs[k].amount]

validateTx(tx, currentHeight) ==
  IF tx.isCoinbase
  THEN IF Len(tx.inputs) # 0 THEN "coinbase must have no inputs"
       ELSE IF \E k \in DOMAIN tx.outputs : tx.outputs[k].amount <= 0 THEN "coinbase bad amount"
       ELSE "ok"
  ELSE LET ins == validateTxInputs(tx, 1, {}, 0, currentHeight)
       IN  IF ins.err # "ok" THEN ins.err
           ELSE IF \E k \in DOMAIN tx.outputs : tx.outputs[k].amount <= 0 THEN "output <= 0"
           ELSE IF ins.inSum < SumSeq(OutputAmounts(tx)) THEN "inputs < outputs"
           ELSE "ok"

\* tx.outputs.forEach((o, idx) => m.set(`${tx.id}:${idx}`, {...})); output idx is 0-based.
\* { amount: o.amount, address: o.address, blockHeight, isCoinbase }: the amount of
\* the entry is undefined when the output has none.
UtxoEntry(o, height, isCb) ==
  IF HasAmount(o)
  THEN [amount |-> o.amount, address |-> o.address, blockHeight |-> height, isCoinbase |-> isCb]
  ELSE [address |-> o.address, blockHeight |-> height, isCoinbase |-> isCb]

RECURSIVE SetOutputs(_, _, _, _, _)
SetOutputs(m, tx, k, height, isCb) ==
  IF k > Len(tx.outputs) THEN m
  ELSE SetOutputs(MapSet(m, OutpointKey(tx.id, k - 1), UtxoEntry(tx.outputs[k], height, isCb)),
                  tx, k + 1, height, isCb)

\* The input loop of a spend inside validateBlock, against the temp map.
RECURSIVE validateBlockInputs(_, _, _, _, _)
validateBlockInputs(tx, idx, temp, inSum, blockIndex) ==
  IF idx > Len(tx.inputs) THEN [err |-> "ok", temp |-> temp, inSum |-> inSum]
  ELSE LET i == tx.inputs[idx]
           key == OutpointKey(i.txid, i.index)
       IN  IF ~MapHas(temp, key) THEN [err |-> "missing input", temp |-> temp, inSum |-> inSum]
           ELSE IF ~BlockMature(temp[key], blockIndex)
                THEN [err |-> "coinbase not mature", temp |-> temp, inSum |-> inSum]
           ELSE IF verifyInputSig(tx, idx) # "ok"
                THEN [err |-> verifyInputSig(tx, idx), temp |-> temp, inSum |-> inSum]
           ELSE IF pubKeyToAddress(i.pubKey) # temp[key].address
                THEN [err |-> "pubKey!=address", temp |-> temp, inSum |-> inSum]
           ELSE validateBlockInputs(tx, idx + 1, MapDelete(temp, key),
                                    inSum + temp[key].amount, blockIndex)

\* The transaction loop of validateBlock.
RECURSIVE validateBlockTxs(_, _, _, _, _)
validateBlockTxs(block, k, temp, coinbaseCount, feeTotal) ==
  IF k > Len(block.transactions)
  THEN [err |-> "ok", temp |-> temp, coinbaseCount |-> coinbaseCount, feeTotal |-> feeTotal]
  ELSE LET tx == block.transactions[k]
       IN  IF tx.isCoinbase
           THEN IF Len(tx.inputs) # 0
                THEN [err |-> "coinbase has inputs", temp |-> temp,
                      coinbaseCount |-> coinbaseCount + 1, feeTotal |-> feeTotal]
                ELSE validateBlockTxs(block, k + 1,
                                      SetOutputs(temp, tx, 1, block.index, TRUE),
                                      coinbaseCount + 1, feeTotal)
           ELSE LET ins == validateBlockInputs(tx, 1, temp, 0, block.index)
                    outSum == SumSeq(OutputAmounts(tx))
                IN  IF ins.err # "ok"
                    THEN [err |-> ins.err, temp |-> ins.temp,
                          coinbaseCount |-> coinbaseCount, feeTotal |-> feeTotal]
                    ELSE IF ins.inSum < outSum
                    THEN [err |-> "tx spends more than inputs", temp |-> ins.temp,
                          coinbaseCount |-> coinbaseCount, feeTotal |-> feeTotal]
                    ELSE validateBlockTxs(block, k + 1,
                                          SetOutputs(ins.temp, tx, 1, block.index, FALSE),
                                          coinbaseCount, feeTotal + (ins.inSum - outSum))

\* block.transactions.find(t => t.isCoinbase)
FirstCoinbase(block) ==
  block.transactions[CHOOSE k \in DOMAIN block.transactions :
                       /\ block.transactions[k].isCoinbase
                       /\ \A j \in 1..(k - 1) : ~block.transactions[j].isCoinbase]

TxIds(txs) == [k \in DOMAIN txs |-> txs[k].id]

\* BigInt('0x' + headerHash(block)): the numeric reading of the header digest.
HashNum(block) ==
  (block.nonce * NonceStride + block.index * 16807 + block.timestamp * 31
     + block.bits + Len(block.transactions) * 7777) % HashSpace

\* A validateBlock that takes any header hash as proof of work.
hashMeetsAny(hashNum, bits) == TRUE

\* if (!hashMeetsBits(hh, block.bits)) throw new Error('insufficient PoW')
PowOk(hashNum, bits) == hashMeetsBits(hashNum, bits)

\* A validateBlock that takes any previous hash.
PrevHashAny(block, tip) == TRUE

\* if (block.previousHash !== headerHash(tip)) throw new Error('prev hash mismatch')
PrevHashOk(block, tip) == block.previousHash = headerHash(tip)

\* A validateBlock that takes any number of coinbases.
CoinbaseCountAny(coinbaseCount) == TRUE

\* if (coinbaseCount !== 1) throw new Error('block must have exactly 1 coinbase')
CoinbaseCountOk(coinbaseCount) == coinbaseCount = 1

\* if (cbOut > expected) throw new Error('coinbase too large')
CoinbaseWithin(cbOut, expected) == cbOut <= expected

\* coinbase.outputs.reduce((s, o) => s + o.amount, 0) is NaN when an output has no
\* amount (a number plus undefined), and NaN > expected is false.
IsNaN(coinbase) == \E k \in DOMAIN coinbase.outputs : ~HasAmount(coinbase.outputs[k])

\* A validateBlock whose temp map holds every output of the block from the start.
TempWithBlockOutputs(block) ==
  LET txs == block.transactions
      made == UNION {{OutpointKey(txs[k].id, o - 1) : o \in DOMAIN txs[k].outputs} :
                       k \in DOMAIN txs}
  IN  [key \in (DOMAIN utxo) \cup made |->
         IF key \in DOMAIN utxo THEN utxo[key]
         ELSE LET k == CHOOSE j \in DOMAIN txs :
                         txs[j].id = key[1] /\ key[2] + 1 \in DOMAIN txs[j].outputs
              IN  UtxoEntry(txs[k].outputs[key[2] + 1], block.index, txs[k].isCoinbase)]

\* const temp = new Map(utxo)
TempMap(block) == utxo

validateBlock(block, now) ==
  LET tip == chain[Len(chain)]
      walk == validateBlockTxs(block, 1, TempMap(block), 0, 0)
      expected == getBlockReward(block.index) + walk.feeTotal
      cbOut == SumSeq(OutputAmounts(FirstCoinbase(block)))
  IN  IF Len(chain) = 0 /\ block.index # 0 THEN "genesis index must be 0"
      ELSE IF Len(chain) # 0 /\ block.index # tip.index + 1 THEN "bad index"
      ELSE IF Len(chain) # 0 /\ ~PrevHashOk(block, tip) THEN "prev hash mismatch"
      ELSE IF block.timestamp > now + MAX_FUTURE THEN "timestamp too far in future"
      ELSE IF \E k \in DOMAIN block.transactions : ~IsString(block.transactions[k].id)
           THEN "The first argument must be of type string"
      ELSE IF merkleRoot(TxIds(block.transactions)) # block.merkleRoot THEN "merkle mismatch"
      ELSE IF ~PowOk(HashNum(block), block.bits) THEN "insufficient PoW"
      ELSE IF walk.err # "ok" THEN walk.err
      ELSE IF ~CoinbaseCountOk(walk.coinbaseCount) THEN "block must have exactly 1 coinbase"
      ELSE IF \A k \in DOMAIN block.transactions : ~block.transactions[k].isCoinbase
           THEN "Cannot read properties of undefined"
      ELSE IF ~IsNaN(FirstCoinbase(block)) /\ ~CoinbaseWithin(cbOut, expected)
           THEN "coinbase too large"
      ELSE "ok"

(* ------------------------------ mempool -------------------------------- *)
\* mempool is a JS object keyed by id; its keys keep insertion order.
MempoolHas(pool, id) == \E k \in DOMAIN pool : KeyOf(pool[k].id) = KeyOf(id)
MempoolDelete(pool, id) == SelectSeq(pool, LAMBDA t : KeyOf(t.id) # KeyOf(id))

\* mempool[tx.id] = tx: an existing key keeps its place, a new key is added after the
\* keys the object has. The sequence holds the entries in the order their keys were
\* added.
MempoolPut(pool, tx) ==
  IF MempoolHas(pool, tx.id)
  THEN [k \in DOMAIN pool |-> IF KeyOf(pool[k].id) = KeyOf(tx.id) THEN tx ELSE pool[k]]
  ELSE Append(pool, tx)

\* Entries with array-index keys in ascending order of the key.
RECURSIVE SortByKey(_)
SortByKey(entries) ==
  IF entries = <<>> THEN <<>>
  ELSE LET least == CHOOSE k \in DOMAIN entries :
                      \A j \in DOMAIN entries : KeyOf(entries[k].id)[2] <= KeyOf(entries[j].id)[2]
       IN  <<entries[least]>>
             \o SortByKey(SubSeq(entries, 1, least - 1) \o SubSeq(entries, least + 1, Len(entries)))

\* Object.values(mempool): the entries under array-index keys first, in ascending
\* order of the key, then the other entries in the order their keys were added.
ObjectValues(pool) ==
  SortByKey(SelectSeq(pool, LAMBDA t : IsArrayIndex(t.id)))
    \o SelectSeq(pool, LAMBDA t : ~IsArrayIndex(t.id))

InputKeys(tx) == {OutpointKey(tx.inputs[k].txid, tx.inputs[k].index) : k \in DOMAIN tx.inputs}

(* --------------------------- block application ------------------------- *)
\* An applyBlock that leaves spent outputs in the map.
KeepInputs(m, tx, k) == m

\* for (const i of tx.inputs || []) utxo.delete(`${i.txid}:${i.index}`)
RECURSIVE DeleteInputs(_, _, _)
DeleteInputs(m, tx, k) ==
  IF k > Len(tx.inputs) THEN m
  ELSE DeleteInputs(MapDelete(m, OutpointKey(tx.inputs[k].txid, tx.inputs[k].index)), tx, k + 1)

\* One iteration of the loop of applyBlock over block.transactions.
applyBlockTx(st, tx, height) ==
  [utxo |-> SetOutputs(DeleteInputs(st.utxo, tx, 1), tx, 1, height, tx.isCoinbase),
   mempool |-> IF MempoolHas(st.mempool, tx.id) THEN MempoolDelete(st.mempool, tx.id)
               ELSE st.mempool,
   mempoolSpent |-> IF MempoolHas(st.mempool, tx.id) THEN st.mempoolSpent \ InputKeys(tx)
                    ELSE st.mempoolSpent]

RECURSIVE applyBlockTxs(_, _, _)
applyBlockTxs(st, block, k) ==
  IF k > Len(block.transactions) THEN st
  ELSE applyBlockTxs(applyBlockTx(st, block.transactions[k], block.index), block, k + 1)

(* ------------------------------ rebuild -------------------------------- *)
RECURSIVE rebuildOutputs(_, _, _, _)
rebuildOutputs(m, tx, k, b) ==
  IF k > Len(tx.outputs) THEN m
  ELSE rebuildOutputs(MapSet(m, OutpointKey(tx.id, k - 1),
                             UtxoEntry(tx.outputs[k], b.index, tx.isCoinbase)),
                      tx, k + 1, b)

RECURSIVE rebuildInputs(_, _, _)
rebuildInputs(m, tx, k) ==
  IF k > Len(tx.inputs) THEN m
  ELSE rebuildInputs(MapDelete(m, OutpointKey(tx.inputs[k].txid, tx.inputs[k].index)), tx, k + 1)

RECURSIVE rebuildTxs(_, _, _)
rebuildTxs(m, b, k) ==
  IF k > Len(b.transactions) THEN m
  ELSE rebuildTxs(rebuildOutputs(rebuildInputs(m, b.transactions[k], 1), b.transactions[k], 1, b),
                  b, k + 1)

RECURSIVE rebuildBlocks(_, _, _)
rebuildBlocks(m, c, h) ==
  IF h > Len(c) THEN m ELSE rebuildBlocks(rebuildTxs(m, c[h], 1), c, h + 1)

rebuildUTXO(c) == rebuildBlocks(EmptyMap, c, 1)

(* ------------------------------ retarget ------------------------------- *)
\* Math.round(1 / ratio * 1e6) with ratio = expected / (actual || 1) clamped to
\* [minR, maxR], actual = deltaMs / 1000, in exact rational arithmetic.
RetargetDivisor(deltaMs, expected) ==
  IF deltaMs = 0
  THEN \* actual || 1: ratio = expected / 1
       IF expected * 100 < minRNum THEN (1000000 * 100) \div minRNum
       ELSE IF expected > maxR THEN 1000000 \div maxR
       ELSE (2 * 1000000 + expected) \div (2 * expected)
  ELSE \* ratio = expected * 1000 / deltaMs
       IF deltaMs < 0 \/ expected * 1000 * 100 < minRNum * deltaMs
       THEN (1000000 * 100) \div minRNum
       ELSE IF expected * 1000 > maxR * deltaMs THEN 1000000 \div maxR
       ELSE (2 * 1000 * deltaMs + expected) \div (2 * expected)

\* ratio of maybeRetarget as a fraction num / den with den > 0: expected / (actual || 1)
\* with actual = deltaMs / 1000, then if (ratio < minR) ratio = minR and
\* if (ratio > maxR) ratio = maxR. actual || 1 is 1 only when actual is 0.
ratio(deltaMs, expected) ==
  LET raw == IF deltaMs = 0 THEN [num |-> expected, den |-> 1]
             ELSE IF deltaMs > 0 THEN [num |-> expected * 1000, den |-> deltaMs]
             ELSE [num |-> 0 - expected * 1000, den |-> 0 - deltaMs]
  IN  IF raw.num * 100 < minRNum * raw.den THEN [num |-> minRNum, den |-> 100]
      ELSE IF raw.num > maxR * raw.den THEN [num |-> maxR, den |-> 1]
      ELSE raw

\* The bits maybeRetarget computes from the current bits and the observed span:
\* BigInt(curTarget / BigInt(Math.round(1 / ratio * 1e6))) * BigInt(1e6), clamped to 1,
\* re-encoded.
retargetBits(bits, deltaMs, expected) ==
  LET curTarget == bitsToTarget(bits)
      scaled == (curTarget \div RetargetDivisor(deltaMs, expected)) * 1000000
      newTarget == IF scaled <= 0 THEN 1 ELSE scaled
  IN  targetToBits(newTarget)

\* A maybeRetarget that runs when the height of the tip is a multiple of adjustEvery.
RetargetDueAtHeight(c, cfg) == Len(c) > 1 /\ (Len(c) - 1) % cfg.adjustEvery = 0

\* if (h === 0 || h % config.adjustEvery !== 0) return, with h = chain.length
RetargetDue(c, cfg) == Len(c) # 0 /\ Len(c) % cfg.adjustEvery = 0

\* The bits maybeRetarget stores for chain c, or the current bits when it returns early.
maybeRetarget(c, cfg) ==
  LET h == Len(c)
  IN  IF ~RetargetDue(c, cfg) THEN cfg.bits
      ELSE LET last == c[h]
               first == c[h - cfg.adjustEvery + 1]
               expected == cfg.adjustEvery * cfg.targetBlockTimeSec
           IN  retargetBits(cfg.bits, last.timestamp - first.timestamp, expected)

(* ------------------------------- boot ---------------------------------- *)
\* Date.now(): every turn of the run reads the same clock value.
Now == 1000000
\* config.bits as read from config.json: target 2^26, half of HashSpace.
InitBits == targetToBits(HashSpace \div 2)

InitConfig ==
  [adjustEvery |-> AdjustEvery, targetBlockTimeSec |-> TargetBlockTimeSec,
   blockSubsidy |-> BlockSubsidy, halvingInterval |-> HalvingInterval,
   coinbaseMaturity |-> CoinbaseMaturity, maxBlockTx |-> MaxBlockTx, bits |-> InitBits]

Out(a, n) == [address |-> a, amount |-> n]

Genesis ==
  [index |-> 0, previousHash |-> <<"0">>, timestamp |-> Now,
   transactions |-> <<[id |-> GenesisId, isCoinbase |-> TRUE, inputs |-> <<>>,
                       outputs |-> <<Out("genesis", 0)>>]>>,
   merkleRoot |-> merkleRoot(<<GenesisId>>), nonce |-> 0, bits |-> InitBits]

\* The request slot of a turn that carried no transaction.
NoTx == [id |-> NoId, isCoinbase |-> FALSE, inputs |-> <<>>, outputs |-> <<>>]

Idle ==
  [via |-> "none", from |-> 0, kind |-> "none", status |-> "", msg |-> "", ref |-> NoId,
   req |-> NoTx, sent |-> [type |-> "", body |-> <<"none">>, to |-> {}]]

\* A peer socket: a number that tells the WebSocket objects apart, the url set on an
\* outbound socket ("" on an inbound one), and its readyState.
Socket(id, url, readyState) == [id |-> id, url |-> url, readyState |-> readyState]

\* The sockets of a node in a mesh: an open outbound socket to a seed peer, an open
\* inbound one, and an outbound one still connecting.
MeshSockets ==
  {Socket(1, "ws://peer1", "OPEN"), Socket(2, "", "OPEN"), Socket(3, "ws://peer3", "CONNECTING")}

\* The sockets a message can come in on.
OpenSockets == {ws.id : ws \in {x \in peersSet : x.readyState = "OPEN"}}

\* No reconnect timer is pending.
NoTimers == <<>>

\* No second node is modelled.
NoMesh == [on |-> FALSE]

\* The compact-bits calculator at rest.
NoCalc ==
  [mode |-> "off", target |-> 0, bits |-> -1, back |-> -1, again |-> -1, span |-> 0,
   ratio |-> [num |-> 0, den |-> 1]]

\* The block directory and config.json after the first boot: block_0.json holds
\* genesis (saveBlock, server.js:486) and config.json the configuration (42).
BootDisk == [blocks |-> MapSet(EmptyMap, 0, Genesis), config |-> InitConfig]

\* The state of one node after its first boot.
Booted ==
  /\ config = InitConfig
  /\ chain = <<Genesis>>
  /\ seenBlockHash = {headerHash(Genesis)}
  /\ utxo = rebuildUTXO(<<Genesis>>)
  /\ mempool = <<>>
  /\ mempoolSpent = {}
  /\ seenTx = {}
  /\ disk = BootDisk
  /\ fsFaults = 0
  /\ resp = Idle

Init ==
  /\ calc = NoCalc
  /\ mesh = NoMesh
  /\ peersSet = MeshSockets
  /\ timers = NoTimers
  /\ Booted

(* ------------------------- submitted inputs ---------------------------- *)
OwnerKey(addr) == IF addr = "a2" THEN "k2" ELSE "k1"
OtherKey(key) == IF key = "k1" THEN "k2" ELSE "k1"

MkCoinbase(id, outs) == [id |-> id, isCoinbase |-> TRUE, inputs |-> <<>>, outputs |-> outs]

\* A spend of the outpoints ops (a sequence of keys) with every input carrying
\* pubKey key; sigKind "good" signs the sighash with key, "bad" carries a signature
\* of another message, "missing" carries none.
MkSpend(id, ops, key, outs, sigKind) ==
  LET core == [inputs |-> [k \in DOMAIN ops |->
                             [txid |-> ops[k][1], index |-> ops[k][2], pubKey |-> key, sig |-> NoSig]],
               outputs |-> outs]
      sig == CASE sigKind = "good" -> [by |-> key, msg |-> SigHash(core)]
               [] sigKind = "bad" -> [by |-> key, msg |-> <<"sighash", <<>>, <<>>>>]
               [] OTHER -> NoSig
  IN  [id |-> id, isCoinbase |-> FALSE,
       inputs |-> [k \in DOMAIN ops |-> [core.inputs[k] EXCEPT !.sig = sig]],
       outputs |-> outs]

NextIndex == chain[Len(chain)].index + 1

\* An outpoint no block ever created.
MissingOutpoint == OutpointKey(<<"txid", <<>>, <<>>>>, 9)

\* The unspent outputs that carry an amount; the spends submitted are built on these.
PricedOutpoints == {op \in DOMAIN utxo : HasAmount(utxo[op])}

\* The well-formed spend of one unspent output, signed by the key of its address,
\* leaving a fee of 1.
GoodSpends(op) ==
  LET key == OwnerKey(utxo[op].address)
      amt == utxo[op].amount
  IN  {MkSpend(NoId, <<op>>, key, <<Out("a2", amt - 1)>>, "good")}

\* A spend that pays the output back to its address, with the id field supplied by
\* the submitter: the txid of the outpoint it spends.
SuppliedIdSpends(op) ==
  LET key == OwnerKey(utxo[op].address)
  IN  {MkSpend(op[1], <<op>>, key, <<Out(utxo[op].address, utxo[op].amount)>>, "good")}

\* Spends of one unspent output that break one rule each.
BadSpends(op) ==
  LET key == OwnerKey(utxo[op].address)
      amt == utxo[op].amount
      all == <<Out("a2", amt)>>
  IN  {MkSpend(NoId, <<op>>, key, all, "bad"),
       MkSpend(NoId, <<op>>, key, all, "missing"),
       MkSpend(NoId, <<op>>, OtherKey(key), all, "good"),
       MkSpend(NoId, <<op>>, key, <<Out("a2", amt + 1)>>, "good"),
       MkSpend(NoId, <<op>>, key, <<Out("a2", 0 - 1), Out("a2", amt + 1)>>, "good"),
       MkSpend(NoId, <<op>>, key, <<>>, "good"),
       MkSpend(NoId, <<op, op>>, key, all, "good"),
       MkSpend(NoId, <<op, MissingOutpoint>>, key, all, "good")}

\* Spends of two unspent outputs of one transaction and one address.
PairSpends ==
  {MkSpend(NoId, <<p[1], p[2]>>, OwnerKey(utxo[p[1]].address),
           <<Out("a2", utxo[p[1]].amount + utxo[p[2]].amount)>>, "good") :
     p \in {q \in (DOMAIN utxo) \X (DOMAIN utxo) :
              /\ q[1][1] = q[2][1] /\ q[1][2] < q[2][2]
              /\ utxo[q[1]].address = utxo[q[2]].address}}

\* The outpoint the rule-breaking spends are built on: a spendable one when there is
\* one (owned by a key, and mature if created by a coinbase).
Spendable(op) ==
  /\ utxo[op].address \in {"a1", "a2"}
  /\ utxo[op].isCoinbase => (NextIndex - utxo[op].blockHeight) >= config.coinbaseMaturity
DefectOutpoint ==
  IF \E op \in DOMAIN utxo : Spendable(op)
  THEN CHOOSE op \in DOMAIN utxo : Spendable(op)
  ELSE CHOOSE op \in PricedOutpoints : TRUE

\* The transaction with no inputs and no outputs, submitted to an empty mempool once
\* an output is spendable.
EmptyTxs ==
  IF mempool = <<>> /\ \E op \in DOMAIN utxo : Spendable(op)
  THEN {MkSpend(NoId, <<>>, "k1", <<>>, "good")}
  ELSE {}

\* The spendable outputs no transaction of the mempool has reserved.
FreeOutpoints == {op \in DOMAIN utxo : Spendable(op) /\ op \notin mempoolSpent}

\* A well-formed spend of a free output whose id field is the string '7', submitted
\* once two blocks stand over genesis and the mempool holds one transaction.
DigitsIdSpends ==
  IF Len(mempool) = 1 /\ Len(chain) = 3 /\ FreeOutpoints # {}
  THEN LET op == CHOOSE o \in FreeOutpoints : TRUE
       IN  {MkSpend(DigitsId, <<op>>, OwnerKey(utxo[op].address),
                    <<Out("a2", utxo[op].amount - 1)>>, "good")}
  ELSE {}

\* A well-formed spend of a free output whose id field is the JSON number 8, submitted
\* to an empty mempool once two blocks stand over genesis.
NumberIdSpends ==
  IF mempool = <<>> /\ Len(chain) = 3 /\ FreeOutpoints # {}
  THEN LET op == CHOOSE o \in FreeOutpoints : TRUE
       IN  {MkSpend(NumberId, <<op>>, OwnerKey(utxo[op].address),
                    <<Out("a2", utxo[op].amount - 1)>>, "good")}
  ELSE {}

\* A transaction flagged isCoinbase with no inputs and one positive output, submitted
\* to an empty mempool once two blocks stand over genesis.
CoinbaseFlagged ==
  IF mempool = <<>> /\ Len(chain) = 3 THEN {MkCoinbase(NoId, <<Out("a2", 1)>>)} ELSE {}

\* Bodies of POST /transactions and of P2P 'tx' messages.
TxMenu ==
  UNION {GoodSpends(op) \cup SuppliedIdSpends(op) : op \in PricedOutpoints}
    \cup BadSpends(DefectOutpoint)
    \cup PairSpends
    \cup EmptyTxs
    \cup DigitsIdSpends
    \cup NumberIdSpends
    \cup CoinbaseFlagged
    \cup {MkSpend(NoId, <<>>, "k1", <<Out("a2", 1)>>, "good"),
          MkCoinbase(NoId, <<Out("a1", 0)>>)}

\* Fee of a pending transaction as the candidate assembler computes it against the
\* current UTXO map.
CandidateFee(t) ==
  LET inSum == SumSeq([k \in DOMAIN t.inputs |->
                         IF MapHas(utxo, OutpointKey(t.inputs[k].txid, t.inputs[k].index))
                         THEN utxo[OutpointKey(t.inputs[k].txid, t.inputs[k].index)].amount
                         ELSE 0])
      outSum == SumSeq(OutputAmounts(t))
  IN  IF inSum > outSum THEN inSum - outSum ELSE 0

\* The coinbase a miner pays itself over the spends txs: subsidy plus fees.
MinerCoinbase(txs) ==
  MkCoinbase(NoId, <<Out("a1", getBlockReward(NextIndex)
                               + SumSeq([k \in DOMAIN txs |-> CandidateFee(txs[k])]))>>)

\* An unsolved block over the current tip.
Template(txs, ts, bitsv) ==
  [index |-> NextIndex, previousHash |-> headerHash(chain[Len(chain)]), timestamp |-> ts,
   transactions |-> txs,
   merkleRoot |-> merkleRoot(TxIds([k \in DOMAIN txs |-> WithId(txs[k])])),
   nonce |-> 0, bits |-> bitsv]

\* The miner's nonce search over 0..MaxNonce: the first nonce whose hash meets the
\* bits of the block (no block when none does).
Mined(b) ==
  LET met == {m \in 0..MaxNonce : hashMeetsBits(HashNum([b EXCEPT !.nonce = m]), b.bits)}
  IN  {[b EXCEPT !.nonce = n] : n \in {m \in met : \A j \in 0..(m - 1) : j \notin met}}

\* The first nonce whose hash misses the bits.
Unmined(b) ==
  LET met == {m \in 0..MaxNonce : hashMeetsBits(HashNum([b EXCEPT !.nonce = m]), b.bits)}
  IN  {[b EXCEPT !.nonce = n] :
         n \in {m \in (0..MaxNonce) \ met : \A j \in 0..(m - 1) : j \in met}}

\* The largest target a compact bits word of size 4 encodes.
EasyBits == targetToBits(HashSpace - 1)

\* Coinbase-only bodies.
CoinbaseBodies ==
  LET r == getBlockReward(NextIndex)
  IN  {<<MkCoinbase(NoId, outs)>> :
         outs \in {<<Out("a1", r)>>, <<Out("a1", 2), Out("a1", r - 2)>>, <<Out("a1", 0)>>,
                   <<Out("a1", r + 1)>>}}

\* Bodies with one spend of an unspent output, the coinbase before or after it.
SpendBodies ==
  UNION {{<<MinerCoinbase(<<s>>), s>>, <<s, MinerCoinbase(<<s>>)>>} :
           s \in UNION {GoodSpends(op) \cup SuppliedIdSpends(op) : op \in PricedOutpoints}}
    \cup {<<MinerCoinbase(<<s>>), s>> : s \in BadSpends(DefectOutpoint)}

\* Bodies with two spends of one outpoint: an honest spend, and a spend carrying the
\* id of the transaction that created the outpoint, in either order.
RespendBodies ==
  UNION {{<<MinerCoinbase(<<s, g>>), s, g>>, <<MinerCoinbase(<<g, s>>), g, s>>} :
           s \in SuppliedIdSpends(DefectOutpoint), g \in GoodSpends(DefectOutpoint)}

\* Bodies with a well-formed spend, under its computed id and with no fee, of an
\* outpoint a mempool transaction has reserved.
SupersedingBodies ==
  {<<MinerCoinbase(<<s>>), s>> :
     s \in {MkSpend(NoId, <<op>>, OwnerKey(utxo[op].address),
                    <<Out("a2", utxo[op].amount)>>, "good") :
              op \in {o \in mempoolSpent \cap DOMAIN utxo : Spendable(o)}}}

\* Bodies with a spend of an unspent output and a spend of the output that spend
\* creates, parent first or child first, offered while the mempool is empty.
DependentBodies ==
  IF mempool = <<>> /\ Spendable(DefectOutpoint)
  THEN LET p == CHOOSE g \in GoodSpends(DefectOutpoint) : TRUE
           c == MkSpend(NoId, <<OutpointKey(txIdFor(p), 0)>>, "k2",
                        <<Out("a1", utxo[DefectOutpoint].amount - 1)>>, "good")
       IN  {<<MinerCoinbase(<<p, c>>), p, c>>, <<MinerCoinbase(<<c, p>>), c, p>>}
  ELSE {}

\* A coinbase-only body whose coinbase pays the miner the subsidy and twice the initial
\* subsidy on top, and has a second output without an amount field, offered over the
\* reference chain while the mempool is empty.
UnpricedBodies ==
  IF mempool = <<>> /\ Len(chain) = 3
  THEN {<<MkCoinbase(NoId, <<Out("a1", getBlockReward(NextIndex) + 2 * config.blockSubsidy),
                             [address |-> "a0"]>>)>>}
  ELSE {}

\* The body of the node's own candidate: coinbase, then the mempool in order.
MempoolBodies == IF mempool = <<>> THEN {} ELSE {<<MinerCoinbase(mempool)>> \o mempool}

\* Bodies that break the coinbase rules.
BrokenBodies ==
  LET cb == MinerCoinbase(<<>>)
  IN  {<<>>, <<cb, cb>>,
       <<[cb EXCEPT !.inputs = <<[txid |-> GenesisId, index |-> 0, pubKey |-> "k1", sig |-> NoSig]>>]>>}

\* Timestamps a miner stamps, relative to the clock.
Timestamps == {Now, Now + 200000}

\* A block that competes with the tip: same height, built over the block below the
\* tip, stamped later.
RivalOfTip ==
  [Template(<<MinerCoinbase(<<>>)>>, Now + 200000, config.bits) EXCEPT
     !.index = NextIndex - 1, !.previousHash = chain[Len(chain)].previousHash]

\* Bodies of POST /blocks and of P2P 'block' messages built over the current tip.
BlockMenu ==
  LET plain == <<MinerCoinbase(<<>>)>>
      t0 == Template(plain, Now, config.bits)
  IN  UNION {Mined(Template(txs, Now, config.bits)) :
               txs \in CoinbaseBodies \cup SpendBodies \cup RespendBodies
                         \cup MempoolBodies \cup BrokenBodies \cup SupersedingBodies
                         \cup DependentBodies \cup UnpricedBodies}
        \cup UNION {Mined(Template(plain, ts, config.bits)) : ts \in Timestamps}
        \cup Mined(Template(plain, Now, EasyBits))
        \cup Mined(Template(plain, Now + MAX_FUTURE + 1, config.bits))
        \cup Unmined(t0)
        \cup UNION {Mined([t0 EXCEPT !.index = NextIndex + 1]),
                    Mined([t0 EXCEPT !.previousHash = <<"0">>]),
                    Mined([t0 EXCEPT !.merkleRoot = <<"sha256-of-empty">>])}
        \cup Mined(RivalOfTip)

\* The chain every deeper exploration builds on: a block whose coinbase pays 2 and 3
\* to a1, then a block whose coinbase pays the subsidy, both stamped Now.
OnReferenceChain ==
  /\ Len(chain) >= 3
  /\ Len(chain[2].transactions) = 1 /\ Len(chain[3].transactions) = 1
  /\ OutputAmounts(chain[2].transactions[1]) = <<2, 3>>
  /\ OutputAmounts(chain[3].transactions[1]) = <<2>>
  /\ chain[2].timestamp = Now /\ chain[3].timestamp = Now
  /\ chain[2].bits = InitBits /\ chain[3].bits # EasyBits
  /\ Len(chain) = 3 => fsFaults = 0

\* Submissions are explored while these hold.
MiningOpen == Len(chain) <= MaxHeight \/ (Len(chain) <= DeepHeight /\ OnReferenceChain)
PoolOpen == Len(chain) <= MaxHeight \/ (OnReferenceChain /\ fsFaults = 0)

(* ------------------------------ handlers ------------------------------- *)
\* No message sent.
NoSend == [type |-> "", body |-> <<"none">>, to |-> {}]

\* p2pBroadcast(obj): one send per socket of peersSet whose readyState is OPEN.
p2pBroadcast(type, body) ==
  [type |-> type, body |-> body,
   to |-> {ws.id : ws \in {x \in peersSet : x.readyState = "OPEN"}}]

\* A handler that gossips whatever the outcome of the turn.
GossipAlways(outcome, type, body) == p2pBroadcast(type, body)

\* The p2pBroadcast call is the last statement but one of the try block: it runs only
\* when nothing before it threw.
Gossip(outcome, type, body) == IF outcome = "ok" THEN p2pBroadcast(type, body) ELSE NoSend

\* The outcome of a turn: the channel and the socket the message came in on (0 for
\* HTTP), what was submitted, how it ended, the error message or note of the answer,
\* the id or height the answer carries, and the messages the turn sent to peers.
Reply(via, kind, status, msg, ref) ==
  [via |-> via, from |-> 0, kind |-> kind, status |-> status, msg |-> msg, ref |-> ref,
   req |-> NoTx, sent |-> NoSend]

\* The answer of POST /transactions, with the transaction it answers.
ReplyTx(tx, status, msg, ref) == [Reply("http", "tx", status, msg, ref) EXCEPT !.req = tx]

\* The outcome of the body of both transaction handlers once the id is set:
\* validateTx, the mempool double-spend scan, then the insert.
AdmitError(tx) ==
  LET v == validateTx(tx, Len(chain))
  IN  IF v # "ok" THEN v
      ELSE IF InputKeys(tx) \cap mempoolSpent # {} THEN "mempool double spend"
      ELSE "ok"

\* tx.id.slice(0, 16) in the log line after the insert: a TypeError when the id is
\* not a string.
LogError(tx) == IF IsString(tx.id) THEN "ok" ELSE "tx.id.slice is not a function"

Admit(tx) ==
  /\ Len(mempool) < MaxMempool
  /\ mempool' = MempoolPut(mempool, tx)
  /\ mempoolSpent' = mempoolSpent \cup InputKeys(tx)
  /\ seenTx' = seenTx \cup {tx.id}
  /\ UNCHANGED <<chain, utxo, seenBlockHash, config, fsFaults, disk>>

\* app.post('/transactions')
PostTransactions(body) ==
  LET tx == WithId(body)
      e == AdmitError(tx)
  IN  /\ resp = Idle
      /\ PoolOpen
      /\ IF e # "ok"
         THEN /\ resp' = [ReplyTx(tx, "error", e, NoId) EXCEPT
                            !.sent = Gossip(e, "tx", <<"tx", tx>>)]
              /\ UNCHANGED <<nodeState, fsFaults>>
         ELSE IF MempoolHas(mempool, tx.id)
         THEN /\ resp' = ReplyTx(tx, "ok", "duplicate in mempool", tx.id)
              /\ UNCHANGED <<nodeState, fsFaults>>
         ELSE /\ Admit(tx)
              /\ resp' = IF LogError(tx) # "ok"
                         THEN [ReplyTx(tx, "error", LogError(tx), NoId) EXCEPT
                                 !.sent = Gossip(LogError(tx), "tx", <<"tx", tx>>)]
                         ELSE [ReplyTx(tx, "ok", "", tx.id) EXCEPT
                                 !.sent = Gossip("ok", "tx", <<"tx", tx>>)]

\* The answer slot of a turn of the P2P handler for a message that came in on socket
\* from: the handler answers nothing; errors are logged by warn.
P2PReply(from, kind, status, ref) ==
  [Reply("p2p", kind, status, "", ref) EXCEPT !.from = from]

\* if (seenTx.has(tx.id) || mempool[tx.id]) return
AlreadySeen(tx) == tx.id \in seenTx \/ MempoolHas(mempool, tx.id)

\* p2pOnMessage, msg.type === 'tx', for a message that came in on socket from
P2PTx(body, from) ==
  LET tx == WithId(body)
      e == AdmitError(tx)
  IN  /\ resp = Idle
      /\ PoolOpen
      /\ IF AlreadySeen(tx)
         THEN /\ resp' = P2PReply(from, "tx", "return", tx.id)
              /\ UNCHANGED <<nodeState, fsFaults>>
         ELSE IF e # "ok"
         THEN /\ resp' = [P2PReply(from, "tx", "error", NoId) EXCEPT
                            !.sent = Gossip(e, "tx", <<"tx", tx>>)]
              /\ UNCHANGED <<nodeState, fsFaults>>
         ELSE /\ Admit(tx)
              /\ resp' = IF LogError(tx) # "ok"
                         THEN [P2PReply(from, "tx", "error", tx.id) EXCEPT
                                 !.sent = Gossip(LogError(tx), "tx", <<"tx", tx>>)]
                         ELSE [P2PReply(from, "tx", "ok", tx.id) EXCEPT
                                 !.sent = Gossip("ok", "tx", <<"tx", tx>>)]

\* The block GET /block/candidate/:address assembles for address addr.
candidate(addr) ==
  LET tip == chain[Len(chain)]
      index == tip.index + 1
      all == ObjectValues(mempool)
      pool == SubSeq(all, 1, IF Len(all) < config.maxBlockTx THEN Len(all) ELSE config.maxBlockTx)
      fee == SumSeq([k \in DOMAIN pool |-> CandidateFee(pool[k])])
      body == [isCoinbase |-> TRUE, inputs |-> <<>>,
               outputs |-> <<Out(addr, getBlockReward(index) + fee)>>]
      coinbase == [id |-> txIdFor(body), isCoinbase |-> TRUE, inputs |-> body.inputs,
                   outputs |-> body.outputs]
      list == [k \in DOMAIN (<<coinbase>> \o pool) |-> WithId((<<coinbase>> \o pool)[k])]
      block == [index |-> index, previousHash |-> headerHash(tip), timestamp |-> Now,
                transactions |-> list, merkleRoot |-> merkleRoot(TxIds(list)), nonce |-> 0,
                bits |-> config.bits]
  IN  [index |-> block.index, previousHash |-> block.previousHash,
       timestamp |-> block.timestamp, transactions |-> block.transactions,
       merkleRoot |-> block.merkleRoot, nonce |-> block.nonce, bits |-> block.bits,
       hash |-> headerHash(block)]

\* app.get('/block/candidate/:address'): merkleRoot throws on an id that is not a
\* string (Buffer.from(t, 'hex')) and the handler answers 500.
GetCandidate(addr) ==
  /\ resp = Idle
  /\ PoolOpen
  /\ resp' = IF \E k \in DOMAIN mempool : ~IsString(mempool[k].id)
             THEN Reply("http", "candidate", "error",
                        "The first argument must be of type string", NoId)
             ELSE Reply("http", "candidate", "ok", "", <<"candidate", candidate(addr)>>)
  /\ UNCHANGED <<nodeState, fsFaults>>

\* for (const t of block.transactions) if (!t.id) t.id = txIdFor(t)
WithIds(block) ==
  [block EXCEPT !.transactions = [k \in DOMAIN block.transactions |-> WithId(block.transactions[k])]]

\* Where a disk write of the block path throws: saveBlock (server.js:308), the
\* config write of applyBlock (310), the config write of maybeRetarget (333).
Faults == {"none", "saveBlock", "saveConfig", "retargetSave"}

\* applyBlock up to the point where fault throws.
applyBlock(block, fault) ==
  LET st == applyBlockTxs([utxo |-> utxo, mempool |-> mempool, mempoolSpent |-> mempoolSpent],
                          block, 1)
  IN  [utxo |-> st.utxo, mempool |-> st.mempool, mempoolSpent |-> st.mempoolSpent,
       chain |-> Append(chain, block),
       seenBlockHash |-> IF fault = "saveBlock" THEN seenBlockHash
                         ELSE seenBlockHash \cup {headerHash(block)}]

\* The files after the turn: saveBlock writes block_<index>.json (126), applyBlock
\* writes config.json (310), and maybeRetarget writes it again with the new bits when
\* it runs (333); a write that throws leaves its file as it was and ends the turn.
DiskAfter(block, fault, newConfig, retargeted) ==
  [blocks |-> IF fault = "saveBlock" THEN disk.blocks
              ELSE MapSet(disk.blocks, block.index, block),
   config |-> IF fault \in {"saveBlock", "saveConfig"} THEN disk.config
              ELSE IF fault = "retargetSave" \/ ~retargeted THEN config
              ELSE newConfig]

\* validateBlock(block); applyBlock(block); maybeRetarget(); p2pBroadcast; inside the
\* try of both block handlers.
BlockTurn(block, via, from) ==
  LET v == validateBlock(block, Now)
      fail(m) == [Reply(via, "block", "error", IF via = "http" THEN m ELSE "", NoId) EXCEPT
                    !.from = from, !.sent = Gossip(m, "block", <<"block", block>>)]
  IN  IF v # "ok"
      THEN /\ resp' = fail(v)
           /\ UNCHANGED <<nodeState, fsFaults>>
      ELSE \E fault \in Faults :
             LET a == applyBlock(block, fault)
                 newConfig == IF fault \in {"saveBlock", "saveConfig"} THEN config
                              ELSE [config EXCEPT !.bits = maybeRetarget(a.chain, config)]
             IN  /\ fault # "none" => fsFaults < MaxFsFaults
                 /\ fault = "retargetSave" => RetargetDue(a.chain, config)
                 /\ utxo' = a.utxo
                 /\ mempool' = a.mempool
                 /\ mempoolSpent' = a.mempoolSpent
                 /\ chain' = a.chain
                 /\ seenBlockHash' = a.seenBlockHash
                 /\ config' = newConfig
                 /\ disk' = DiskAfter(block, fault, newConfig, RetargetDue(a.chain, config))
                 /\ fsFaults' = IF fault = "none" THEN fsFaults ELSE fsFaults + 1
                 /\ resp' = IF fault = "none"
                            THEN [Reply(via, "block", "ok", "", <<"height", block.index>>) EXCEPT
                                    !.from = from,
                                    !.sent = Gossip("ok", "block", <<"block", block>>)]
                            ELSE fail("EIO")
                 /\ UNCHANGED seenTx

\* app.post('/blocks')
PostBlocks(body) ==
  /\ resp = Idle
  /\ MiningOpen
  /\ BlockTurn(WithIds(body), "http", 0)

\* The 'block' branch of p2pOnMessage for a message that came in on socket from.
P2PBlockTurn(body, from) ==
  IF headerHash(body) \in seenBlockHash
  THEN /\ resp' = P2PReply(from, "block", "return", NoId)
       /\ UNCHANGED <<nodeState, fsFaults>>
  ELSE BlockTurn(WithIds(body), "p2p", from)

\* p2pOnMessage, msg.type === 'block'
P2PBlock(body, from) ==
  /\ resp = Idle
  /\ MiningOpen
  /\ P2PBlockTurn(body, from)

\* The answer leaves the node and the event loop takes the next turn.
Respond ==
  /\ resp # Idle
  /\ resp' = Idle
  /\ UNCHANGED <<nodeState, fsFaults, netState, outside>>

\* The addresses miners ask candidates for.
MinerAddresses == {"a1"}

\* Blocks a peer relays: fresh ones, and blocks this node already holds.
RelayMenu == BlockMenu \cup Range(chain)

\* One turn of the event loop: a request or a message is taken up only after the turn
\* before it has ended.
Next ==
  \/ resp = Idle /\ \E body \in TxMenu : PostTransactions(body) /\ UNCHANGED <<netState, outside>>
  \/ resp = Idle /\ \E body \in TxMenu, from \in OpenSockets :
                      P2PTx(body, from) /\ UNCHANGED <<netState, outside>>
  \/ resp = Idle /\ \E body \in BlockMenu : PostBlocks(body) /\ UNCHANGED <<netState, outside>>
  \/ \E addr \in MinerAddresses : GetCandidate(addr) /\ UNCHANGED <<netState, outside>>
  \/ resp = Idle /\ \E body \in RelayMenu, from \in OpenSockets :
                      P2PBlock(body, from) /\ UNCHANGED <<netState, outside>>
  \/ Respond

Spec == Init /\ [][Next]_vars

(* ---------------- compact bits and retarget arithmetic ----------------- *)
\* Targets of one to four bytes.
Targets == {m * Pow2(e) : m \in 1..MaxMant, e \in {x \in 0..MaxExp : x % 4 = 0}}

\* Observed spans of a retarget window, in ms: none, the expected one, ten times it,
\* half a second, and a window whose last block is stamped a second before its first.
Spans ==
  {0, AdjustEvery * TargetBlockTimeSec * 1000, AdjustEvery * TargetBlockTimeSec * 10000,
   500, 0 - 1000}

\* Either a target is handed to targetToBits, or config.json holds the encoding of a
\* target that decodes to at least 1 and retargets follow.
CalcInit ==
  /\ mesh = NoMesh
  /\ peersSet = MeshSockets
  /\ timers = NoTimers
  /\ disk = BootDisk
  /\ chain = <<Genesis>>
  /\ seenBlockHash = {headerHash(Genesis)}
  /\ utxo = rebuildUTXO(<<Genesis>>)
  /\ mempool = <<>>
  /\ mempoolSpent = {}
  /\ seenTx = {}
  /\ fsFaults = 0
  /\ resp = Idle
  /\ \/ /\ config = InitConfig
        /\ \E t \in Targets : calc = [NoCalc EXCEPT !.mode = "codec", !.target = t]
     \/ /\ calc = [NoCalc EXCEPT !.mode = "retarget"]
        /\ \E t \in Targets :
             /\ bitsToTarget(targetToBits(t)) >= 1
             /\ config = [InitConfig EXCEPT !.bits = targetToBits(t)]

\* b = targetToBits(t)
Encode ==
  /\ calc.mode = "codec" /\ calc.bits = -1
  /\ calc' = [calc EXCEPT !.bits = targetToBits(calc.target)]
  /\ UNCHANGED <<nodeState, resp, fsFaults, netState, mesh>>

\* bitsToTarget(b)
Decode ==
  /\ calc.mode = "codec" /\ calc.bits # -1 /\ calc.back = -1
  /\ calc' = [calc EXCEPT !.back = bitsToTarget(calc.bits)]
  /\ UNCHANGED <<nodeState, resp, fsFaults, netState, mesh>>

\* targetToBits(bitsToTarget(b))
ReEncode ==
  /\ calc.mode = "codec" /\ calc.back # -1 /\ calc.again = -1
  /\ calc' = [calc EXCEPT !.again = targetToBits(calc.back)]
  /\ UNCHANGED <<nodeState, resp, fsFaults, netState, mesh>>

\* The arithmetic of maybeRetarget on config.bits for an observed span.
Retarget(deltaMs) ==
  /\ calc.mode = "retarget"
  /\ bitsToTarget(config.bits) <= MaxRetargetTarget
  /\ config' = [config EXCEPT
                  !.bits = retargetBits(config.bits, deltaMs,
                                        config.adjustEvery * config.targetBlockTimeSec)]
  /\ calc' = [calc EXCEPT
                !.span = deltaMs,
                !.ratio = ratio(deltaMs, config.adjustEvery * config.targetBlockTimeSec)]
  /\ UNCHANGED <<chain, mempool, utxo, seenTx, seenBlockHash, mempoolSpent, resp, fsFaults,
                 disk, netState, mesh>>

CalcNext ==
  \/ Encode
  \/ Decode
  \/ ReEncode
  \/ \E deltaMs \in Spans : Retarget(deltaMs)

CalcSpec == CalcInit /\ [][CalcNext]_vars

(* ------------------------------ restart -------------------------------- *)
\* loadBlocks: the block files in ascending order of the height in their names.
loadBlocks(files) ==
  [i \in 1..Cardinality(DOMAIN files) |->
     files[CHOOSE h \in DOMAIN files : Cardinality({x \in DOMAIN files : x < h}) = i - 1]]

\* The process is stopped and started again on the same data directory: the module
\* state is initialised afresh, config.json is read over the defaults, loadBlocks
\* fills the chain and the seen-block set, genesis is created only when no block file
\* exists, and rebuildUTXO replays the chain.
Restart ==
  LET loaded == loadBlocks(disk.blocks)
      c == IF loaded = <<>> THEN <<Genesis>> ELSE loaded
  IN  /\ resp = Idle
      /\ config' = disk.config
      /\ chain' = c
      /\ seenBlockHash' = {headerHash(c[i]) : i \in DOMAIN c}
      /\ utxo' = rebuildUTXO(c)
      /\ mempool' = <<>>
      /\ mempoolSpent' = {}
      /\ seenTx' = {}
      /\ disk' = IF loaded = <<>> THEN [disk EXCEPT !.blocks = MapSet(EmptyMap, 0, Genesis)]
                 ELSE disk
      /\ resp' = Reply("boot", "boot", "ok", "", <<"height", Len(c) - 1>>)
      /\ UNCHANGED <<fsFaults, netState, outside>>

BootNext ==
  \/ Next
  \/ Restart

BootSpec == Init /\ [][BootNext]_vars

(* ------------------------- peer connections --------------------------- *)
\* The PEERS lists a node is started with: one seed, two seeds, one seed named twice.
PeerLists == {<<"ws://peer1">>, <<"ws://peer1", "ws://peer2">>, <<"ws://peer1", "ws://peer1">>}

\* A number no socket of the set carries.
FreshId(set) == CHOOSE n \in 1..(Cardinality(set) + 1) : \A ws \in set : ws.id # n

\* A connectToPeer without the test for an existing socket.
HasSocketNever(set, url) == FALSE

\* [...peersSet].some(s => s.url === url)
HasSocket(set, url) == \E ws \in set : ws.url = url

\* connectToPeer(url): the peer set after the call.
connectToPeer(set, url) ==
  IF HasSocket(set, url) THEN set
  ELSE set \cup {Socket(FreshId(set), url, "CONNECTING")}

\* for (const p of peers) connectToPeer(p)
RECURSIVE DialAll(_, _)
DialAll(set, peers) ==
  IF peers = <<>> THEN set ELSE DialAll(connectToPeer(set, peers[1]), Tail(peers))

\* The node after boot and initP2P, for one of the PEERS lists.
NetInit ==
  /\ calc = NoCalc
  /\ mesh = NoMesh
  /\ Booted
  /\ timers = NoTimers
  /\ \E peers \in PeerLists : peersSet = DialAll({}, peers)

\* The transport of socket ws reports the connection established.
SocketOpen(ws) ==
  /\ ws \in peersSet /\ ws.readyState = "CONNECTING"
  /\ peersSet' = (peersSet \ {ws}) \cup {[ws EXCEPT !.readyState = "OPEN"]}
  /\ UNCHANGED timers

\* The connection of socket ws is refused or lost: the socket is closed; the 'error'
\* handlers do nothing.
SocketLost(ws) ==
  /\ ws \in peersSet /\ ws.readyState \in {"CONNECTING", "OPEN"}
  /\ peersSet' = (peersSet \ {ws}) \cup {[ws EXCEPT !.readyState = "CLOSED"]}
  /\ UNCHANGED timers

\* A 'close' handler that schedules no reconnect.
OnCloseForgets(ws) ==
  /\ ws \in peersSet /\ ws.readyState = "CLOSED"
  /\ peersSet' = peersSet \ {ws}
  /\ UNCHANGED timers

\* ws.on('close'): the socket leaves the peer set; for an outbound socket a reconnect
\* is scheduled.
OnClose(ws) ==
  /\ ws \in peersSet /\ ws.readyState = "CLOSED"
  /\ peersSet' = peersSet \ {ws}
  /\ timers' = IF ws.url # "" THEN Append(timers, ws.url) ELSE timers

\* setTimeout(() => connectToPeer(url), 2000) comes due.
TimerFires(k) ==
  /\ k \in DOMAIN timers
  /\ Len(timers) <= MaxTimers
  /\ peersSet' = connectToPeer(peersSet, timers[k])
  /\ timers' = SubSeq(timers, 1, k - 1) \o SubSeq(timers, k + 1, Len(timers))

\* wss.on('connection'): a peer dials in.
InboundConnection ==
  /\ Cardinality({ws \in peersSet : ws.url = ""}) < MaxInbound
  /\ peersSet' = peersSet \cup {Socket(FreshId(peersSet), "", "OPEN")}
  /\ UNCHANGED timers

NetNext ==
  \/ \E ws \in peersSet : SocketOpen(ws) /\ UNCHANGED <<nodeState, resp, fsFaults, outside>>
  \/ \E ws \in peersSet : SocketLost(ws) /\ UNCHANGED <<nodeState, resp, fsFaults, outside>>
  \/ \E ws \in peersSet : OnClose(ws) /\ UNCHANGED <<nodeState, resp, fsFaults, outside>>
  \/ \E k \in DOMAIN timers : TimerFires(k) /\ UNCHANGED <<nodeState, resp, fsFaults, outside>>
  \/ InboundConnection /\ UNCHANGED <<nodeState, resp, fsFaults, outside>>

NetSpec == NetInit /\ [][NetNext]_vars

\* The seed URLs and the numbers sockets carry.
Urls == UNION {Range(peers) : peers \in PeerLists}
SocketIds == 1..(Cardinality(Urls) + MaxInbound + 1)

\* The event loop delivers the 'close' event of every closed socket and runs every
\* timer callback that is due.
NetFairness ==
  /\ \A id \in SocketIds, url \in Urls \cup {""} :
       WF_vars(OnClose(Socket(id, url, "CLOSED")) /\ UNCHANGED <<nodeState, resp, fsFaults, outside>>)
  /\ \A url \in Urls :
       WF_vars(\E k \in DOMAIN timers :
                 /\ timers[k] = url
                 /\ TimerFires(k)
                 /\ UNCHANGED <<nodeState, resp, fsFaults, outside>>)

NetLiveSpec == NetSpec /\ NetFairness

(* ------------------------------ two nodes ------------------------------- *)
\* Two nodes joined by one connection. The variables of the node state hold the node
\* whose turn it is; mesh.other holds the state of the node at the far end, mesh.inbox
\* the messages on their way to this node and mesh.outbox those on their way to the
\* other, in the order sent.
NodeRecord ==
  [chain |-> chain, mempool |-> mempool, utxo |-> utxo, seenTx |-> seenTx,
   seenBlockHash |-> seenBlockHash, mempoolSpent |-> mempoolSpent, config |-> config,
   disk |-> disk, fsFaults |-> fsFaults, peersSet |-> peersSet]

\* The state of a node that booted at clock value ts and accepted the connection of
\* the other node.
BootedAt(ts) ==
  LET g == [Genesis EXCEPT !.timestamp = ts]
  IN  [chain |-> <<g>>, mempool |-> <<>>, utxo |-> rebuildUTXO(<<g>>), seenTx |-> {},
       seenBlockHash |-> {headerHash(g)}, mempoolSpent |-> {}, config |-> InitConfig,
       disk |-> [blocks |-> MapSet(EmptyMap, 0, g), config |-> InitConfig],
       fsFaults |-> 0, peersSet |-> {Socket(1, "", "OPEN")}]

\* Node n1 dialled node n2; n2 holds the same genesis (a copy of the block directory)
\* or booted on its own, later.
MeshInit ==
  /\ calc = NoCalc
  /\ timers = NoTimers
  /\ Booted
  /\ peersSet = {Socket(1, "ws://peer1", "OPEN")}
  /\ \E ts \in Timestamps :
       mesh = [on |-> TRUE, self |-> "n1", other |-> BootedAt(ts), inbox |-> <<>>,
               outbox |-> <<>>, mined |-> 0]

\* What the turn's p2pBroadcast puts on the connection to the other node.
Sent(r) == IF 1 \in r.sent.to THEN <<[type |-> r.sent.type, body |-> r.sent.body]>> ELSE <<>>

\* The blocks a miner at this node solves over its tip.
MeshMenu ==
  UNION {Mined(Template(<<MinerCoinbase(<<>>)>>, ts, config.bits)) : ts \in Timestamps}

\* A miner posts a solved block to this node.
MeshPost(body) ==
  /\ resp = Idle
  /\ mesh.mined < MaxMined
  /\ BlockTurn(WithIds(body), "http", 0)
  /\ mesh' = [mesh EXCEPT !.mined = @ + 1, !.outbox = @ \o Sent(resp')]
  /\ UNCHANGED <<calc, netState>>

\* The 'get_tip' and 'tip' branches of p2pOnMessage: the tip is broadcast in answer to
\* get_tip; a tip received is ignored.
TipTurn(msg, from) ==
  /\ resp' = IF msg.type = "get_tip"
             THEN [P2PReply(from, "get_tip", "ok", NoId) EXCEPT
                     !.sent = p2pBroadcast("tip", <<"tip", chain[Len(chain)]>>)]
             ELSE P2PReply(from, "tip", "ok", NoId)
  /\ UNCHANGED <<nodeState, fsFaults>>

\* The other node asks for the tip.
MeshAsk ==
  /\ resp = Idle
  /\ Len(mesh.inbox) + Len(mesh.outbox) < MaxWire
  /\ mesh' = [mesh EXCEPT !.inbox = Append(@, [type |-> "get_tip", body |-> <<"none">>])]
  /\ UNCHANGED <<nodeState, resp, fsFaults, calc, netState>>

\* The message at the head of the inbox reaches p2pOnMessage of this node.
MeshDeliver ==
  /\ resp = Idle
  /\ mesh.inbox # <<>>
  /\ LET msg == Head(mesh.inbox)
     IN  IF msg.type = "block" THEN P2PBlockTurn(msg.body[2], 1) ELSE TipTurn(msg, 1)
  /\ mesh' = [mesh EXCEPT !.inbox = Tail(@), !.outbox = @ \o Sent(resp')]
  /\ UNCHANGED <<calc, netState>>

\* The turn passes to the other node.
MeshSwitch ==
  /\ resp = Idle
  /\ chain' = mesh.other.chain
  /\ mempool' = mesh.other.mempool
  /\ utxo' = mesh.other.utxo
  /\ seenTx' = mesh.other.seenTx
  /\ seenBlockHash' = mesh.other.seenBlockHash
  /\ mempoolSpent' = mesh.other.mempoolSpent
  /\ config' = mesh.other.config
  /\ disk' = mesh.other.disk
  /\ fsFaults' = mesh.other.fsFaults
  /\ peersSet' = mesh.other.peersSet
  /\ mesh' = [mesh EXCEPT !.self = IF @ = "n1" THEN "n2" ELSE "n1", !.other = NodeRecord,
                          !.inbox = mesh.outbox, !.outbox = mesh.inbox]
  /\ UNCHANGED <<resp, calc, timers>>

MeshNext ==
  \/ \E body \in MeshMenu : MeshPost(body)
  \/ MeshAsk
  \/ MeshDeliver
  \/ MeshSwitch
  \/ Respond

MeshSpec == MeshInit /\ [][MeshNext]_vars

(* ------------------------------ properties ----------------------------- *)
\* C1: after any sequence of block submissions, accepted or rejected, the chain is
\* contiguous: every block above genesis names the header hash of the block below
\* it as its previous hash, and the index of a block is its position in the chain.
ChainContiguous ==
  \A i \in 2..Len(chain) :
    /\ chain[i].previousHash = headerHash(chain[i - 1])
    /\ chain[i].index = i - 1

\* Two blocks were accepted over genesis and the last submission, a block that does
\* not extend the tip, was rejected.
ChainContiguousWitness ==
  /\ Len(chain) >= 3
  /\ resp.kind = "block" /\ resp.via = "http"
  /\ resp.msg \in {"prev hash mismatch", "bad index"}


\* C2: after any sequence of accepted blocks the UTXO map that applyBlock maintains
\* incrementally equals the map rebuildUTXO computes by replaying every block of the
\* chain in height order from an empty map.
UtxoIsRebuild == utxo = rebuildUTXO(chain)

\* Three blocks were accepted over genesis and the last one carries a spend.
UtxoIsRebuildWitness ==
  /\ Len(chain) = 4
  /\ \E k \in DOMAIN chain[4].transactions : Len(chain[4].transactions[k].inputs) > 0

\* C3: a block submission that ends in rejection (POST /blocks answers 400, the P2P
\* handler takes its warning path) leaves the chain, the UTXO map, the mempool, the
\* mempool-spent set, the seen-block set and config.bits as they were before it, also
\* when the failure is raised after validateBlock succeeded.
RejectedBlockNoEffect ==
  [][(resp'.kind = "block" /\ resp'.status = "error")
       => UNCHANGED <<chain, utxo, mempool, mempoolSpent, seenBlockHash, config>>]_vars

\* A block submission was answered 400 after a disk write threw, and the chain holds
\* the block.
RejectedBlockApplied ==
  /\ resp.kind = "block" /\ resp.status = "error" /\ resp.msg = "EIO"
  /\ Len(chain) = 2

\* C4: in every reachable state no two distinct transactions of the mempool spend
\* the same outpoint.
NoMempoolDoubleSpend ==
  \A i, j \in DOMAIN mempool :
    i # j => InputKeys(mempool[i]) \cap InputKeys(mempool[j]) = {}

\* C5: a POST /transactions of a transaction that is already in the mempool, with the
\* same id, inputs and outputs and its inputs still unspent, answers success with
\* that id and leaves the mempool and the mempool-spent set unchanged.
DuplicateIsSuccess ==
  [][(/\ resp'.via = "http" /\ resp'.kind = "tx"
      /\ \E k \in DOMAIN mempool : mempool[k] = resp'.req
      /\ InputKeys(resp'.req) \subseteq DOMAIN utxo)
       => /\ resp'.status = "ok" /\ resp'.ref = resp'.req.id
          /\ mempool' = mempool /\ mempoolSpent' = mempoolSpent]_vars

\* A transaction of the mempool was posted again and answered 400.
DuplicateRejected ==
  /\ resp.via = "http" /\ resp.kind = "tx" /\ resp.status = "error"
  /\ resp.msg = "mempool double spend"
  /\ \E k \in DOMAIN mempool : mempool[k] = resp.req

\* C6: a rejected transaction (POST /transactions answers 400, a P2P 'tx' message is
\* dropped) leaves the mempool, the mempool-spent set, the UTXO map and the chain
\* unchanged; a transaction that passes validateTx and spends an outpoint reserved by
\* a transaction of the mempool is rejected with 'mempool double spend', and that
\* transaction and its reservation remain.
RejectedTxNoEffect ==
  [][/\ (resp'.kind = "tx" /\ resp'.status \in {"error", "return"})
          => UNCHANGED <<mempool, mempoolSpent, utxo, chain>>
     /\ \A k \in DOMAIN mempool :
          (/\ resp'.via = "http" /\ resp'.kind = "tx"
           /\ validateTx(resp'.req, Len(chain)) = "ok"
           /\ InputKeys(resp'.req) \cap InputKeys(mempool[k]) \cap mempoolSpent # {})
            => /\ resp'.status = "error" /\ resp'.msg = "mempool double spend"
               /\ k \in DOMAIN mempool' /\ mempool'[k] = mempool[k]
               /\ InputKeys(mempool[k]) \cap mempoolSpent
                    \subseteq mempoolSpent']_vars

\* C7: every block of the chain, genesis included, has a header hash whose numeric
\* reading is at most bitsToTarget of the bits of the block.
EveryBlockMeetsTarget ==
  \A i \in 1..Len(chain) : HashNum(chain[i]) <= bitsToTarget(chain[i].bits)

\* C7, for the blocks validateBlock accepted: every block above genesis has a header
\* hash whose numeric reading is at most bitsToTarget of the bits of the block.
AcceptedBlocksMeetTarget ==
  \A i \in 2..Len(chain) : HashNum(chain[i]) <= bitsToTarget(chain[i].bits)

\* A block whose first nonces miss the target was accepted with a later nonce, and a
\* block that misses it was rejected.
AcceptedBlocksMeetTargetWitness ==
  /\ \E i \in 2..Len(chain) : chain[i].nonce > 0
  /\ resp.msg = "insufficient PoW"

\* The sum of the outputs of the coinbases of block b; an output without an amount
\* counts for nothing.
CoinbaseSum(b) ==
  SumSeq([k \in DOMAIN b.transactions |->
            IF b.transactions[k].isCoinbase
            THEN SumSeq([o \in DOMAIN b.transactions[k].outputs |->
                           IF HasAmount(b.transactions[k].outputs[o])
                           THEN b.transactions[k].outputs[o].amount ELSE 0])
            ELSE 0])

\* The amounts of the outputs the inputs of tx spend, read from the UTXO map m.
InputAmounts(tx, m) ==
  [k \in DOMAIN tx.inputs |-> m[OutpointKey(tx.inputs[k].txid, tx.inputs[k].index)].amount]

\* The fees of block b over the UTXO map m: inputs minus outputs of every spend.
BlockFees(b, m) ==
  SumSeq([k \in DOMAIN b.transactions |->
            IF b.transactions[k].isCoinbase THEN 0
            ELSE SumSeq(InputAmounts(b.transactions[k], m))
                   - SumSeq(OutputAmounts(b.transactions[k]))])

\* C8: in every block validateBlock accepts, the coinbase outputs sum to at most the
\* subsidy of the height of the block plus the fees of its spends, a fee being the
\* sum of the amounts a spend consumes minus the sum of its outputs.
CoinbaseBounded ==
  [][chain' # chain
       => LET b == chain'[Len(chain')]
          IN  CoinbaseSum(b) <= getBlockReward(b.index) + BlockFees(b, utxo)]_vars

\* A block without spends was accepted whose coinbase outputs sum to more than the
\* subsidy of its height.
CoinbaseAboveSubsidy ==
  /\ resp.kind = "block" /\ resp.status = "ok"
  /\ \A k \in DOMAIN chain[Len(chain)].transactions : chain[Len(chain)].transactions[k].isCoinbase
  /\ CoinbaseSum(chain[Len(chain)]) > getBlockReward(chain[Len(chain)].index)

\* C9: every output of every transaction of a block validateBlock accepted has an
\* amount above zero.
AcceptedOutputsPositive ==
  \A i \in 2..Len(chain) :
    \A k \in DOMAIN chain[i].transactions :
      \A o \in DOMAIN chain[i].transactions[k].outputs :
        /\ HasAmount(chain[i].transactions[k].outputs[o])
        /\ chain[i].transactions[k].outputs[o].amount > 0

\* A block with a spend that has a negative output is in the chain.
NegativeOutputAccepted ==
  \E i \in 2..Len(chain) :
    \E k \in DOMAIN chain[i].transactions :
      /\ ~chain[i].transactions[k].isCoinbase
      /\ \E o \in DOMAIN chain[i].transactions[k].outputs :
           chain[i].transactions[k].outputs[o].amount < 0

\* C10: every block of the chain contains exactly one coinbase transaction.
ExactlyOneCoinbase ==
  \A i \in 1..Len(chain) :
    Cardinality({k \in DOMAIN chain[i].transactions : chain[i].transactions[k].isCoinbase}) = 1

\* A block was accepted over genesis, and a block without a coinbase or with two was
\* rejected.
ExactlyOneCoinbaseWitness ==
  /\ Len(chain) >= 2
  /\ resp.msg = "block must have exactly 1 coinbase"

\* C11: in every block of the chain the coinbase transaction is at position 0 of the
\* transaction list.
CoinbaseFirst ==
  \A i \in 1..Len(chain) :
    Len(chain[i].transactions) > 0 /\ chain[i].transactions[1].isCoinbase

\* A block whose transaction list starts with a spend, its coinbase second, is in the
\* chain.
CoinbaseSecond ==
  \E i \in 2..Len(chain) :
    /\ Len(chain[i].transactions) = 2
    /\ ~chain[i].transactions[1].isCoinbase
    /\ chain[i].transactions[2].isCoinbase

\* The outpoints the inputs of block b spend, one entry per input.
SpentInBlock(b) ==
  UNION {{<<k, j, OutpointKey(b.transactions[k].inputs[j].txid,
                              b.transactions[k].inputs[j].index)>> :
            j \in DOMAIN b.transactions[k].inputs} : k \in DOMAIN b.transactions}

\* C12: no outpoint is spent twice within one accepted block, neither by two inputs
\* of one transaction nor by inputs of two transactions of the block.
NoDoubleSpendInBlock ==
  \A i \in 2..Len(chain) :
    \A x, y \in SpentInBlock(chain[i]) : x[3] = y[3] => x = y

\* A block with two transactions spending the same outpoint is in the chain.
OutpointSpentTwice ==
  \E i \in 2..Len(chain) :
    \E x, y \in SpentInBlock(chain[i]) : x[3] = y[3] /\ x[1] # y[1]

\* C13: validateTx rejects every transaction that is not a coinbase and has no inputs
\* or no outputs, so the mempool never holds one.
MempoolTxsHaveInputsAndOutputs ==
  \A k \in DOMAIN mempool :
    ~mempool[k].isCoinbase => Len(mempool[k].inputs) > 0 /\ Len(mempool[k].outputs) > 0

\* POST /transactions answered success for a transaction without inputs and without
\* outputs, and the mempool holds it.
EmptyTxAdmitted ==
  /\ resp.via = "http" /\ resp.kind = "tx" /\ resp.status = "ok"
  /\ ~resp.req.isCoinbase /\ resp.req.inputs = <<>> /\ resp.req.outputs = <<>>
  /\ \E k \in DOMAIN mempool : mempool[k] = resp.req

\* Transaction tx has one input, and it names an unspent coinbase output created at
\* height h.
SpendsCoinbaseOf(tx, h) ==
  /\ Len(tx.inputs) = 1
  /\ LET key == OutpointKey(tx.inputs[1].txid, tx.inputs[1].index)
     IN  MapHas(utxo, key) /\ utxo[key].isCoinbase /\ utxo[key].blockHeight = h

BlockSpendsMature ==
  [][(chain' # chain)
       => LET b == chain'[Len(chain')]
          IN  \A x \in SpentInBlock(b) :
                (MapHas(utxo, x[3]) /\ utxo[x[3]].isCoinbase)
                  => b.index - utxo[x[3]].blockHeight >= config.coinbaseMaturity]_vars

\* A block of height 3 that spends an output of the coinbase of height 1 is in the
\* chain.
BlockSpendsMatureWitness ==
  /\ Len(chain) = 4
  /\ \E x \in SpentInBlock(chain[4]) : x[3][1] = chain[2].transactions[1].id
  /\ chain[2].transactions[1].isCoinbase

\* The bits a retarget over the window of adjustEvery blocks ending at the tip of
\* chain c gives, from bits b.
WindowBits(c, b) ==
  retargetBits(b, c[Len(c)].timestamp - c[Len(c) - config.adjustEvery + 1].timestamp,
               config.adjustEvery * config.targetBlockTimeSec)

\* C16: config.bits is recomputed exactly after the acceptance of a block whose height
\* h satisfies h % adjustEvery = 0 and h > 0, over the span from the block at height
\* h - adjustEvery to the tip; after the acceptance of a block of any other height
\* config.bits is unchanged.
RetargetAtHeightMultiple ==
  [][(resp'.kind = "block" /\ resp'.status = "ok")
       => LET h == chain'[Len(chain')].index
          IN  IF h > 0 /\ h % config.adjustEvery = 0
              THEN config'.bits
                     = retargetBits(config.bits,
                                    chain'[h + 1].timestamp
                                      - chain'[h - config.adjustEvery + 1].timestamp,
                                    config.adjustEvery * config.targetBlockTimeSec)
              ELSE config'.bits = config.bits]_vars

\* C16, counting blocks: config.bits is recomputed exactly after the acceptance of a
\* block that brings the length of the chain to a multiple of adjustEvery, over the
\* span of the last adjustEvery blocks; after the acceptance of any other block, and
\* in every step that appends no block, config.bits is unchanged.
RetargetAtLengthMultiple ==
  [][/\ (resp'.kind = "block" /\ resp'.status = "ok")
          => IF Len(chain') % config.adjustEvery = 0
             THEN config'.bits = WindowBits(chain', config.bits)
             ELSE config'.bits = config.bits
     /\ config'.bits # config.bits
          => chain' # chain /\ Len(chain') % config.adjustEvery = 0]_vars

\* The fourth block was accepted and the bits are no longer those of boot.
RetargetAtLengthMultipleWitness ==
  /\ Len(chain) = 4
  /\ resp.kind = "block" /\ resp.status = "ok"
  /\ config.bits # InitBits

\* C17: on a retarget the target moves as stated: when the span of the window is
\* shorter than expected (ratio > 1) the new target is at most the old one, when it
\* is longer (ratio < 1) at least the old one, and with the ratio clamped to 4 the new
\* target is a quarter of the old one up to the precision of the encoding.
RetargetDirection ==
  [][(resp'.kind = "block" /\ resp'.status = "ok" /\ Len(chain') % config.adjustEvery = 0)
       => LET span == chain'[Len(chain')].timestamp
                        - chain'[Len(chain') - config.adjustEvery + 1].timestamp
              expectedMs == config.adjustEvery * config.targetBlockTimeSec * 1000
              old == bitsToTarget(config.bits)
              new == bitsToTarget(config'.bits)
          IN  /\ (span >= 0 /\ span < expectedMs) => new <= old
              /\ span > expectedMs => new >= old
              /\ (span >= 0 /\ maxR * span <= expectedMs)
                   => /\ new <= old \div maxR
                      /\ new >= (old \div maxR) - (old \div maxR) \div 128]_vars

\* Two blocks with the same timestamp, the window of the first retarget, and the
\* target after it is above the target of boot.
TargetGrewOnFastBlocks ==
  /\ Len(chain) = 2 /\ chain[2].timestamp = chain[1].timestamp
  /\ resp.kind = "block" /\ resp.status = "ok"
  /\ bitsToTarget(config.bits) > bitsToTarget(InitBits)

\* C18: after any sequence of retargets from bits whose target is at least 1, the
\* target the stored bits decode to is at least 1.
TargetStaysPositive == calc.mode = "retarget" => bitsToTarget(config.bits) >= 1

\* Retargets have left bits that decode to the target 0.
TargetBecameZero == calc.mode = "retarget" /\ bitsToTarget(config.bits) = 0

\* C19: for every target t >= 1, bitsToTarget(targetToBits(t)) is above 0, at most t,
\* and less than t/256 below t.
RoundTripLossBounded ==
  calc.back # -1
    => /\ calc.back > 0
       /\ calc.back <= calc.target
       /\ (calc.target - calc.back) * 256 < calc.target

\* The target 1 was encoded and the bits decoded to 0.
OneDecodesToZero == calc.target = 1 /\ calc.bits # -1 /\ calc.back = 0

\* C20: for every target t >= 1 and b = targetToBits(t),
\* targetToBits(bitsToTarget(b)) = b.
ReEncodeIsIdentity == calc.again # -1 => calc.again = calc.bits

\* A two-byte target was encoded, decoded and encoded again to other bits.
ReEncodeDiffers ==
  /\ calc.target >= 256 /\ calc.target < 65536
  /\ calc.again # -1 /\ calc.again # calc.bits

\* C21: every transaction stored in the mempool, and every transaction of a block
\* validateBlock accepted, has as its id the node's own txIdFor of it, whatever id the
\* submitter supplied.
IdsRecomputed ==
  /\ \A k \in DOMAIN mempool : mempool[k].id = txIdFor(mempool[k])
  /\ \A i \in 2..Len(chain) :
       \A k \in DOMAIN chain[i].transactions :
         chain[i].transactions[k].id = txIdFor(chain[i].transactions[k])

\* POST /transactions answered success with an id that is the one the submitter
\* supplied and not txIdFor of the transaction, and the mempool holds it under that id.
SuppliedIdKept ==
  /\ resp.via = "http" /\ resp.kind = "tx" /\ resp.status = "ok"
  /\ resp.ref # txIdFor(resp.req)
  /\ \E k \in DOMAIN mempool : mempool[k] = resp.req /\ mempool[k].id = resp.ref

\* The outpoints the transactions of the mempool spend.
MempoolInputs == UNION {InputKeys(mempool[k]) : k \in DOMAIN mempool}

\* C29: after a block is accepted no transaction of it is in the mempool under its id,
\* and in every reachable state the mempool-spent set is exactly the set of outpoints
\* the transactions of the mempool spend.
MempoolSpentExact ==
  /\ mempoolSpent = MempoolInputs
  /\ (resp.kind = "block" /\ resp.status = "ok")
       => \A k \in DOMAIN chain[Len(chain)].transactions :
            ~MempoolHas(mempool, chain[Len(chain)].transactions[k].id)

\* A block was accepted and the mempool-spent set holds an outpoint no transaction of
\* the mempool spends.
ReservationLeaked ==
  /\ resp.kind = "block" /\ resp.status = "ok"
  /\ mempoolSpent \ MempoolInputs # {}

\* C28: the chain only grows at its tip: in every step it stays the same or gains
\* exactly one block, whose index is the old length and whose previousHash is the
\* header hash of the old tip; the blocks already in it keep their heights and
\* contents (no reorganisation, no replacement by a competing block).
ChainAppendOnly ==
  [][\/ chain' = chain
     \/ /\ Len(chain') = Len(chain) + 1
        /\ SubSeq(chain', 1, Len(chain)) = chain
        /\ chain'[Len(chain')].index = Len(chain)
        /\ chain'[Len(chain')].previousHash = headerHash(chain[Len(chain)])]_vars

\* Two blocks stand over genesis and a block competing with the tip, of the height of
\* the tip and built over the block below it, was answered 'bad index'.
ChainAppendOnlyWitness ==
  /\ Len(chain) = 3
  /\ resp.via = "http" /\ resp.kind = "block" /\ resp.msg = "bad index"

\* C6, as the code behaves: POST /transactions answered 400 for a transaction whose
\* id is not a string, and the mempool holds the transaction.
RejectedTxAdmitted ==
  /\ resp.via = "http" /\ resp.kind = "tx" /\ resp.status = "error"
  /\ resp.msg = "tx.id.slice is not a function"
  /\ \E k \in DOMAIN mempool : mempool[k] = resp.req
  /\ InputKeys(resp.req) \subseteq mempoolSpent

\* C22: the candidate returned for the current state has index = tip.index + 1,
\* previousHash = headerHash(tip), bits = config.bits, nonce = 0, and a transaction
\* list made of one coinbase at position 0 followed by the first
\* min(maxBlockTx, mempool size) transactions of the mempool in the order in which
\* they were admitted.
CandidateAsSpecified ==
  (resp.kind = "candidate" /\ resp.status = "ok")
    => LET b == resp.ref[2]
           tip == chain[Len(chain)]
           n == IF Len(mempool) < config.maxBlockTx THEN Len(mempool) ELSE config.maxBlockTx
       IN  /\ b.index = tip.index + 1
           /\ b.previousHash = headerHash(tip)
           /\ b.bits = config.bits
           /\ b.nonce = 0
           /\ Len(b.transactions) = n + 1
           /\ b.transactions[1].isCoinbase
           /\ SubSeq(b.transactions, 2, n + 1) = SubSeq(mempool, 1, n)

\* A candidate was returned that lists the transaction admitted second before the
\* transaction admitted first.
CandidateOutOfOrder ==
  /\ resp.kind = "candidate" /\ resp.status = "ok"
  /\ Len(mempool) = 2 /\ Len(resp.ref[2].transactions) = 3
  /\ resp.ref[2].transactions[2] = mempool[2]
  /\ resp.ref[2].transactions[3] = mempool[1]

\* C23: when a valid transaction reaches the node over P2P, the first reception
\* stores it in the mempool exactly once and broadcasts it in one 'tx' message, and a
\* reception of a transaction whose id the node has seen, from whichever peer,
\* changes no state and sends no message.
GossipReceptionIdempotent ==
  [][(resp'.via = "p2p" /\ resp'.kind = "tx" /\ resp'.ref # NoId)
       => IF resp'.ref \in seenTx
          THEN UNCHANGED nodeState /\ resp'.sent.to = {}
          ELSE /\ Cardinality({k \in DOMAIN mempool' : mempool'[k].id = resp'.ref}) = 1
               /\ mempoolSpent' = mempoolSpent \cup InputKeys(mempool'[Len(mempool')])
               /\ resp'.sent.type = "tx" /\ resp'.sent.to # {}
               /\ resp'.sent.body = <<"tx", mempool'[Len(mempool')]>>]_vars

\* A transaction received from a peer for the first time is in the mempool and was
\* not broadcast.
AdmittedNotGossiped ==
  /\ resp.via = "p2p" /\ resp.kind = "tx" /\ resp.status = "error"
  /\ \E k \in DOMAIN mempool : mempool[k].id = resp.ref
  /\ resp.sent.to = {}

\* C24: on the first receipt of a valid transaction or block from a peer, the node
\* sends it to every other peer with an open connection and not to the peer it came
\* from.
RebroadcastToOthers ==
  [][(resp'.via = "p2p" /\ resp'.status = "ok")
       => resp'.sent.to = OpenSockets \ {resp'.from}]_vars

\* A block received from a peer was accepted and sent back on the socket it came in
\* on.
EchoedToSender ==
  /\ resp.via = "p2p" /\ resp.kind = "block" /\ resp.status = "ok"
  /\ resp.from \in resp.sent.to

\* C25: a 'tx' message is broadcast only in a turn that inserted that transaction
\* into the mempool, and a 'block' message only in a turn that appended that block
\* to the chain; a turn that rejects its transaction or block sends nothing.
GossipOnlyAfterStateChange ==
  [][/\ resp'.sent.to # {}
          => \/ /\ resp'.sent.type = "tx"
                /\ \A k \in DOMAIN mempool : mempool[k] # resp'.sent.body[2]
                /\ mempool' = Append(mempool, resp'.sent.body[2])
             \/ /\ resp'.sent.type = "block"
                /\ chain' = Append(chain, resp'.sent.body[2])
     /\ (resp'.kind \in {"tx", "block"} /\ resp'.status \in {"error", "return"})
          => resp'.sent.to = {}]_vars

\* A transaction received from a peer was admitted to the mempool and broadcast.
GossipOnlyAfterStateChangeWitness ==
  /\ resp.via = "p2p" /\ resp.kind = "tx" /\ resp.status = "ok"
  /\ resp.sent.type = "tx" /\ resp.sent.to # {}
  /\ \E k \in DOMAIN mempool : mempool[k] = resp.sent.body[2]

\* C26: under any interleaving of dial, open, error, close and timer events, the
\* peer set holds at most one outbound socket per peer URL and at most one reconnect
\* timer is pending per URL.
ReconnectIdempotent ==
  \A url \in {"ws://peer1", "ws://peer2"} :
    /\ Cardinality({ws \in peersSet : ws.url = url}) <= 1
    /\ Cardinality({k \in DOMAIN timers : timers[k] = url}) <= 1

\* The socket to one seed is open while the reconnect timer of the other seed, whose
\* socket was lost and removed, is pending.
ReconnectIdempotentWitness ==
  /\ \E ws \in peersSet : ws.url = "ws://peer2" /\ ws.readyState = "OPEN"
  /\ timers = <<"ws://peer1">>
  /\ \A ws \in peersSet : ws.url # "ws://peer1"

\* C30: stopping the node and booting it again on the same block directory yields a
\* chain and a UTXO map identical to those before the restart, and the existing
\* genesis file is not replaced.
RestartPreservesState ==
  [][resp'.kind = "boot"
       => /\ chain' = chain
          /\ utxo' = utxo
          /\ disk'.blocks[0] = disk.blocks[0]]_vars

\* The node was restarted after a block had been applied while its file could not be
\* written, and the chain holds genesis only.
RestartLostBlock ==
  /\ resp.kind = "boot"
  /\ fsFaults = 1
  /\ Len(chain) = 1

\* C27: in a connected mesh with reliable delivery, once block production has stopped
\* and every message has been delivered, every node holds the same chain.
NodesConverge ==
  (mesh.on /\ resp = Idle /\ mesh.inbox = <<>> /\ mesh.outbox = <<>>)
    => chain = mesh.other.chain

\* Two nodes that started from the same genesis each hold a different block of height
\* 1, no message is in flight and no further block can be produced.
ForkedForGood ==
  /\ mesh.on /\ resp = Idle /\ mesh.inbox = <<>> /\ mesh.outbox = <<>>
  /\ mesh.mined = MaxMined
  /\ chain[1] = mesh.other.chain[1]
  /\ Len(chain) = 2 /\ Len(mesh.other.chain) = 2
  /\ chain[2] # mesh.other.chain[2]

\* C31: a mempool transaction never outlives its inputs: every input of every mempool
\* transaction refers to an entry of the UTXO map.
MempoolInputsUnspent ==
  \A k \in DOMAIN mempool : InputKeys(mempool[k]) \subseteq DOMAIN utxo

\* A block was accepted that spent, through a transaction with another id, the outpoint
\* a mempool transaction with a computed id had reserved; that transaction is still in
\* the mempool and the outpoint is still reserved.
SupersededTxKept ==
  /\ resp.kind = "block" /\ resp.status = "ok"
  /\ \E k \in DOMAIN mempool, j \in DOMAIN chain[Len(chain)].transactions :
       LET m == mempool[k]
           t == chain[Len(chain)].transactions[j]
       IN  /\ m.id = txIdFor(m) /\ t.id = txIdFor(t) /\ t.id # m.id
           /\ \A o \in DOMAIN t.outputs : HasAmount(t.outputs[o]) /\ t.outputs[o].amount > 0
           /\ InputKeys(m) \cap InputKeys(t) # {}
           /\ InputKeys(m) \cap InputKeys(t) \subseteq mempoolSpent
           /\ InputKeys(m) \cap InputKeys(t) \cap DOMAIN utxo = {}

\* C32: the retarget ratio is expected / max(actual_sec, 1) clamped to [0.25, 4], for
\* every span of the window: zero, below one second and negative spans included.
RatioIsClampedOverMax ==
  calc.ratio.num # 0
    => LET expected == config.adjustEvery * config.targetBlockTimeSec
           floor == IF calc.span < 1000 THEN [num |-> expected, den |-> 1]
                    ELSE [num |-> expected * 1000, den |-> calc.span]
           want == IF floor.num * 100 < minRNum * floor.den THEN [num |-> minRNum, den |-> 100]
                   ELSE IF floor.num > maxR * floor.den THEN [num |-> maxR, den |-> 1]
                   ELSE floor
       IN  calc.ratio.num * want.den = want.num * calc.ratio.den

\* The last block of the window is stamped before the first and the ratio of the
\* retarget is the lower clamp, 0.25.
BackwardWindowEasesTarget ==
  /\ calc.mode = "retarget" /\ calc.span < 0
  /\ calc.ratio.num * 100 = minRNum * calc.ratio.den

\* Transaction t creates the outpoint key.
Creates(t, key) == t.id = key[1] /\ key[2] + 1 \in DOMAIN t.outputs

\* Some transaction of block b spends an outpoint that is not in the UTXO map and that
\* a transaction of b creates, with no creating transaction before it in the list.
SpenderBeforeCreator(b) ==
  \E k \in DOMAIN b.transactions :
    \E key \in InputKeys(b.transactions[k]) :
      /\ key \notin DOMAIN utxo
      /\ \E j \in DOMAIN b.transactions : Creates(b.transactions[j], key)
      /\ ~\E j \in 1..(k - 1) : Creates(b.transactions[j], key)

\* C33: intra-block dependencies resolve by list order: a block is appended only if
\* every input that is not an entry of the UTXO map is created by a transaction earlier
\* in its list, and a submitted block whose spender precedes the creator is rejected
\* and changes nothing.
IntraBlockByListOrder ==
  [][/\ Len(chain') > Len(chain)
          => \A k \in DOMAIN chain'[Len(chain')].transactions :
               \A key \in InputKeys(chain'[Len(chain')].transactions[k]) :
                 \/ key \in DOMAIN utxo
                 \/ \E j \in 1..(k - 1) : Creates(chain'[Len(chain')].transactions[j], key)
     /\ (resp = Idle /\ resp'.via = "http" /\ resp'.kind = "block")
          => \A body \in BlockMenu :
               (SpenderBeforeCreator(WithIds(body)) /\ PostBlocks(body))
                 => /\ resp'.status = "error" /\ resp'.msg = "missing input"
                    /\ UNCHANGED nodeState]_vars

\* The block at the tip holds a transaction that spends an output created by the
\* transaction before it in the list, an output the UTXO map never held before.
DependentBlockAccepted ==
  /\ resp.kind = "block" /\ resp.status = "ok"
  /\ \E k \in DOMAIN chain[Len(chain)].transactions :
       /\ k > 1
       /\ ~chain[Len(chain)].transactions[k - 1].isCoinbase
       /\ \E key \in InputKeys(chain[Len(chain)].transactions[k]) :
            Creates(chain[Len(chain)].transactions[k - 1], key)

\* C34: a lost outbound peer is always retried: whenever an outbound socket has closed,
\* after having opened or after a failed dial, a new dial to its URL follows, every
\* time.
LostPeerRetried ==
  \A url \in Urls :
    (\E ws \in peersSet : ws.url = url /\ ws.readyState = "CLOSED")
      ~> (\E ws \in peersSet : ws.url = url /\ ws.readyState = "CONNECTING")

\* The seed is being dialled again on a socket other than the one of boot, which was
\* lost and removed.
PeerRedialled ==
  /\ timers = <<>>
  /\ \E ws \in peersSet : ws.url = "ws://peer1" /\ ws.id # 1 /\ ws.readyState = "CONNECTING"

\* C35: the chain can always be extended from the node's own template: the candidate
\* GET /block/candidate returned, given a timestamp and the first nonce whose header
\* hash meets its bits and submitted with the state as it is, passes validateBlock.
CandidateExtendsChain ==
  (resp.kind = "candidate" /\ resp.status = "ok")
    => \A ts \in Timestamps :
         \A m \in Mined([resp.ref[2] EXCEPT !.timestamp = ts]) :
           validateBlock(WithIds(m), Now) = "ok"

\* The mempool holds only a transaction flagged isCoinbase, admitted by validateTx, and
\* the candidate just returned, once mined, is rejected for its two coinbases.
CandidateWithTwoCoinbases ==
  /\ resp.kind = "candidate" /\ resp.status = "ok"
  /\ Len(mempool) = 1 /\ mempool[1].isCoinbase
  /\ \E ts \in Timestamps :
       \E m \in Mined([resp.ref[2] EXCEPT !.timestamp = ts]) :
         validateBlock(WithIds(m), Now) = "block must have exactly 1 coinbase"

\* C36: difficulty is enforced by the node: every block appended to the chain carries
\* the bits config.bits holds at the moment of acceptance.
AcceptedBitsAreConfigBits ==
  [][Len(chain') > Len(chain) => chain'[Len(chain')].bits = config.bits]_vars

\* The first block over genesis was accepted with bits that encode a larger target
\* than the bits the configuration held since boot.
EasierBitsAccepted ==
  /\ Len(chain) = 2
  /\ resp.kind = "block" /\ resp.status = "ok"
  /\ chain[2].bits # InitBits
  /\ bitsToTarget(chain[2].bits) > bitsToTarget(InitBits)

\* C37: applying a block never overwrites an unspent entry of the UTXO map: no output
\* of a block appended to the chain has an outpoint key that the map held before the
\* block and that the block did not spend.
NoUtxoOverwrite ==
  [][Len(chain') > Len(chain)
       => LET b == chain'[Len(chain')]
          IN  \A k \in DOMAIN b.transactions :
                \A o \in DOMAIN b.transactions[k].outputs :
                  LET key == OutpointKey(b.transactions[k].id, o - 1)
                  IN  key \in DOMAIN utxo
                        => \E j \in 1..k : key \in InputKeys(b.transactions[j])]_vars

\* The two blocks at the top of the chain were built from the node's own candidates and
\* hold only a coinbase paying the same address the same amount: the coinbases have
\* the same id, and the one entry of the UTXO map under it is the later block's.
CoinbaseEntryOverwritten ==
  /\ Len(chain) = 4
  /\ resp.kind = "block" /\ resp.status = "ok"
  /\ Len(chain[3].transactions) = 1 /\ Len(chain[4].transactions) = 1
  /\ chain[3].transactions[1].id = txIdFor(chain[3].transactions[1])
  /\ chain[4].transactions[1].id = chain[3].transactions[1].id
  /\ OutpointKey(chain[4].transactions[1].id, 0) \in DOMAIN utxo
  /\ utxo[OutpointKey(chain[4].transactions[1].id, 0)].blockHeight = chain[4].index

\* The sum of the amounts of the entries of map m under the keys of the set keys; an
\* entry without an amount counts for nothing.
RECURSIVE AmountOver(_, _)
AmountOver(m, keys) ==
  IF keys = {} THEN 0
  ELSE LET k == CHOOSE x \in keys : TRUE
       IN  (IF HasAmount(m[k]) THEN m[k].amount ELSE 0) + AmountOver(m, keys \ {k})

\* C38: no value is created beyond the subsidy: the amounts of the entries of the UTXO
\* map sum to at most the subsidies of the heights of the blocks of the chain.
NoValueBeyondSubsidy ==
  AmountOver(utxo, DOMAIN utxo)
    <= SumSeq([i \in DOMAIN chain |-> getBlockReward(chain[i].index)])

\* A block was accepted whose coinbase has an output without an amount and an output
\* of more than the subsidy of its height; the UTXO map holds both, and its amounts sum
\* to more than the subsidies of the chain.
ValueCreated ==
  /\ resp.kind = "block" /\ resp.status = "ok"
  /\ LET cb == chain[Len(chain)].transactions[1]
     IN  /\ Len(chain[Len(chain)].transactions) = 1
         /\ cb.isCoinbase /\ IsNaN(cb)
         /\ \E o \in DOMAIN cb.outputs :
              /\ HasAmount(cb.outputs[o])
              /\ cb.outputs[o].amount > getBlockReward(chain[Len(chain)].index)
              /\ OutpointKey(cb.id, o - 1) \in DOMAIN utxo
  /\ AmountOver(utxo, DOMAIN utxo)
       > SumSeq([i \in DOMAIN chain |-> getBlockReward(chain[i].index)])

====
